---- MODULE Spec2Model ----
(***************************************************************************)
(* A model of the AI-Leearn server: the map-backed store                   *)
(* (src/server/storage.ts), the answer-submission, batch-evaluation and    *)
(* cached AI gateway handlers (src/server/routes.ts).                      *)
(*                                                                         *)
(* Handlers are asynchronous.  A handler is cut into steps at the awaits   *)
(* where it really suspends: every model.generateContent call, and the     *)
(* await inside MemStorage.createAnswer that separates its lookup from its *)
(* write.  Everything a handler does between two such points is one step.  *)
(* Optional values (undefined in the source) are sequences of length 0 or  *)
(* 1.                                                                      *)
(***************************************************************************)
EXTENDS Integers, Sequences, FiniteSets, TLC

VARIABLES
    sessions,         \* MemStorage.sessions, in Map insertion order
    questions,        \* MemStorage.questions, in Map insertion order
    answers,          \* MemStorage.answers, in Map insertion order
    sessionId,        \* MemStorage.sessionId: next session id
    questionId,       \* MemStorage.questionId: next question id
    answerId,         \* MemStorage.answerId: next answer id
    knowledgeAreas,   \* MemStorage.knowledgeAreas, in Map insertion order
    knowledgeAreaId,  \* MemStorage.knowledgeAreaId: next knowledge area id
    aiCalls,          \* number of model.generateContent invocations so far
    aiResponseCache,  \* routes.ts aiResponseCache: entries [key, data, timestamp]
    now,              \* Date.now(), in milliseconds since the process started
    reqs,             \* the handlers in flight: slot -> position and locals
    response,         \* the response sent last, with the request it answers
    client            \* the Analysis page: its React state and its requests

vars == <<sessions, questions, answers, sessionId, questionId, answerId,
          knowledgeAreas, knowledgeAreaId,
          aiCalls, aiResponseCache, now, reqs, response, client>>

areas == <<knowledgeAreas, knowledgeAreaId>>

store == <<sessions, questions, answers, sessionId, questionId, answerId>>

-----------------------------------------------------------------------------
(* Bounds of the model *)

MaxReq == 2           \* handlers in flight at once
MaxSessions == 1      \* sessions ever created
MaxQuestions == 2     \* questions ever created
MaxAnswerId == 2      \* createAnswer calls ever made (answerId++ on each)
MaxAiCalls == 3       \* model.generateContent calls ever made
MaxTicks == 2         \* clock advances
MaxAreas == 1         \* knowledge areas, client ever created

Slots == 1..MaxReq

(* Request inputs *)
SessionTopics == {"Algebra"}
UserAnswers == {"", "x", "y"}             \* "" is falsy: rejected with 400
QuestionIdInputs == 0..MaxQuestions       \* 0 is falsy; an id may not be stored yet

Min(S) == CHOOSE m \in S : \A n \in S : m <= n

-----------------------------------------------------------------------------
(* Evaluation values *)

TempEvaluation(deferEvaluation) ==
    [correctness |-> 0,
     feedback |-> IF deferEvaluation THEN "Evaluation deferred until test completion"
                                     ELSE "Evaluating your answer...",
     strengths |-> <<>>, weaknesses |-> <<>>]

tempAnswer(qid, userAnswer, deferEvaluation) ==
    [id |-> -1, questionId |-> qid, userAnswer |-> userAnswer,
     evaluation |-> TempEvaluation(deferEvaluation), batchEvaluation |-> <<>>]

\* Mutant: the deferred branch persists tempAnswer's evaluation.
PendingEvaluation_Temp == TempEvaluation(TRUE)

PendingEvaluation ==
    [correctness |-> 0, feedback |-> "Pending evaluation at test completion",
     strengths |-> <<>>, weaknesses |-> <<>>]

FallbackEvaluation ==
    [correctness |-> 50,
     feedback |-> "We had trouble evaluating your answer automatically.",
     strengths |-> <<"Submission received">>,
     weaknesses |-> <<"Evaluation process encountered an error">>]

-----------------------------------------------------------------------------
(* MemStorage *)

\* Map.prototype.set on a Map kept in insertion order: an existing key keeps
\* its place, a new key goes last.
MapSet(m, rec) ==
    IF \E i \in 1..Len(m) : m[i].id = rec.id
    THEN [i \in 1..Len(m) |-> IF m[i].id = rec.id THEN rec ELSE m[i]]
    ELSE Append(m, rec)

getSession(id) ==
    LET idx == {i \in 1..Len(sessions) : sessions[i].id = id}
    IN  IF idx = {} THEN <<>> ELSE <<sessions[Min(idx)]>>

getQuestion(id) ==
    LET idx == {i \in 1..Len(questions) : questions[i].id = id}
    IN  IF idx = {} THEN <<>> ELSE <<questions[Min(idx)]>>

getSessionQuestions(sid) ==
    SelectSeq(questions, LAMBDA q : q.sessionId = sid)

\* Array.from(this.answers.values()).find(...): the first match in Map order.
getQuestionAnswer(qid) ==
    LET idx == {i \in 1..Len(answers) : answers[i].questionId = qid}
    IN  IF idx = {} THEN <<>> ELSE <<answers[Min(idx)]>>

getSessionQuestionsWithAnswers(sid) ==
    LET qs == getSessionQuestions(sid)
    IN  [i \in 1..Len(qs) |->
            [id |-> qs[i].id, sessionId |-> qs[i].sessionId,
             question |-> qs[i].question, difficulty |-> qs[i].difficulty,
             answer |-> getQuestionAnswer(qs[i].id)]]

\* insertAnswerSchema.parse: a ZodError (<<>>) unless userAnswer is a string;
\* the schema picks questionId, userAnswer and evaluation, and zod strips every
\* other key of its input, batchEvaluation included.
insertAnswerSchema(qid, userAnswer, isString, evaluation, batchEvaluation) ==
    IF ~isString THEN <<>>
    ELSE <<[questionId |-> qid, userAnswer |-> userAnswer,
            evaluation |-> evaluation, batchEvaluation |-> <<>>]>>

\* Mutant: an update takes the input's batchEvaluation, absent or not.
createAnswerRecord_TakesInputBatch(answer, id, existingAnswer) ==
    IF existingAnswer # <<>>
    THEN [existingAnswer[1] EXCEPT
            !.userAnswer = answer.userAnswer,
            !.evaluation = answer.evaluation,
            !.batchEvaluation = answer.batchEvaluation]
    ELSE [id |-> id, questionId |-> answer.questionId,
          userAnswer |-> answer.userAnswer, evaluation |-> answer.evaluation,
          batchEvaluation |-> answer.batchEvaluation, createdAt |-> now]

\* createAnswer after its await: the record written, from the id taken and the
\* lookup made before the await; createdAt is the time of the write.
createAnswerRecord(answer, id, existingAnswer) ==
    IF existingAnswer # <<>>
    THEN [existingAnswer[1] EXCEPT
            !.userAnswer = answer.userAnswer,
            !.evaluation = answer.evaluation,
            !.batchEvaluation = IF answer.batchEvaluation # <<>>
                                THEN answer.batchEvaluation
                                ELSE existingAnswer[1].batchEvaluation]
    ELSE [id |-> id, questionId |-> answer.questionId,
          userAnswer |-> answer.userAnswer, evaluation |-> answer.evaluation,
          batchEvaluation |-> answer.batchEvaluation, createdAt |-> now]

-----------------------------------------------------------------------------
Idle == [kind |-> "idle", pc |-> "done"]

\* A new handler takes the lowest free slot; slots are only names.
Free(r) ==
    /\ reqs[r].pc = "done"
    /\ \A r2 \in Slots : r2 < r => reqs[r2].pc # "done"

NoResponse == [kind |-> "none", status |-> 0]

\* The Analysis page before its session is loaded.
ClientInit ==
    [pc |-> "init", questions |-> <<>>, answered |-> {}, hasKnowledgeAreas |-> FALSE,
     currentQuestion |-> 0, nextQuestion |-> 0,
     userAnswers |-> [q \in 1..MaxQuestions |-> <<>>],
     pendingAnswers |-> [q \in 1..MaxQuestions |-> <<>>],
     outstanding |-> {}, abandoned |-> {}, evaluated |-> FALSE]

Init ==
    /\ client = ClientInit
    /\ sessions = <<>>
    /\ questions = <<>>
    /\ answers = <<>>
    /\ sessionId = 1
    /\ questionId = 1
    /\ answerId = 1
    /\ knowledgeAreas = <<>>
    /\ knowledgeAreaId = 1
    /\ aiCalls = 0
    /\ aiResponseCache = {}
    /\ now = 0
    /\ reqs = [r \in Slots |-> Idle]
    /\ response = NoResponse

-----------------------------------------------------------------------------
(* POST /api/sessions *)

PostSession(userId, topic, stage) ==
    /\ sessionId <= MaxSessions
    /\ sessions' = MapSet(sessions, [id |-> sessionId, userId |-> userId,
                                     topic |-> topic, stage |-> stage])
    /\ sessionId' = sessionId + 1
    /\ response' = [kind |-> "session", status |-> 201]
    /\ UNCHANGED <<questions, answers, questionId, answerId, aiCalls,
                   aiResponseCache, now, areas, client, reqs>>

-----------------------------------------------------------------------------
(* PATCH /api/sessions/:id/stage *)

\* Stage values of request bodies: two of the four the schema's comment names,
\* one it does not name, and "", which is falsy.
StageInputs == {"analysis", "feedback", "bogus", ""}

StageResponse(status, session) ==
    [kind |-> "stage", status |-> status, session |-> session]

\* MemStorage.updateSessionStage: the updated session, <<>> for an unknown id.
updateSessionStage(id, stage) ==
    LET session == getSession(id)
    IN  IF session = <<>> THEN <<>>
        ELSE <<[session[1] EXCEPT !.stage = stage]>>

\* The id parameter is a number; isString is typeof stage === 'string'.
PatchStage(id, stage, isString) ==
    /\ LET updatedSession == updateSessionStage(id, stage)
       IN  IF stage = "" \/ ~isString
           THEN /\ response' = StageResponse(400, <<>>)
                /\ UNCHANGED sessions
           ELSE IF updatedSession = <<>>
           THEN /\ response' = StageResponse(404, <<>>)
                /\ UNCHANGED sessions
           ELSE /\ sessions' = MapSet(sessions, updatedSession[1])
                /\ response' = StageResponse(200, updatedSession)
    /\ UNCHANGED <<questions, answers, sessionId, questionId, answerId, areas, client,
                   aiCalls, aiResponseCache, now, reqs>>

-----------------------------------------------------------------------------
(* POST /api/knowledge-areas, PATCH /api/knowledge-areas/:id *)

AreaNames == {"Fractions"}
Proficiencies == {40, 90}

getKnowledgeArea(id) ==
    LET idx == {i \in 1..Len(knowledgeAreas) : knowledgeAreas[i].id = id}
    IN  IF idx = {} THEN <<>> ELSE <<knowledgeAreas[Min(idx)]>>

\* valid: insertKnowledgeAreaSchema.parse accepts the body.
PostKnowledgeArea(sid, name, proficiency, valid) ==
    /\ IF ~valid
       THEN /\ response' = [kind |-> "area", status |-> 400, area |-> <<>>]
            /\ UNCHANGED areas
       ELSE LET newArea == [id |-> knowledgeAreaId, sessionId |-> sid,
                            name |-> name, proficiency |-> proficiency]
            IN  /\ knowledgeAreaId <= MaxAreas
                /\ knowledgeAreaId' = knowledgeAreaId + 1
                /\ knowledgeAreas' = MapSet(knowledgeAreas, newArea)
                /\ response' = [kind |-> "area", status |-> 201, area |-> <<newArea>>]
    /\ UNCHANGED <<store, aiCalls, aiResponseCache, now, reqs, client>>

\* isNumber: typeof proficiency === 'number'.
PatchKnowledgeArea(areaId, proficiency, isNumber) ==
    /\ LET area == getKnowledgeArea(areaId)
       IN  IF ~isNumber
           THEN /\ response' = [kind |-> "area", status |-> 400, area |-> <<>>]
                /\ UNCHANGED knowledgeAreas
           ELSE IF area = <<>>
           THEN /\ response' = [kind |-> "area", status |-> 404, area |-> <<>>]
                /\ UNCHANGED knowledgeAreas
           ELSE LET updatedArea == [area[1] EXCEPT !.proficiency = proficiency]
                IN  /\ knowledgeAreas' = MapSet(knowledgeAreas, updatedArea)
                    /\ response' = [kind |-> "area", status |-> 200,
                                    area |-> <<updatedArea>>]
    /\ UNCHANGED <<store, knowledgeAreaId, aiCalls, aiResponseCache, now, reqs, client>>

-----------------------------------------------------------------------------
(* POST /api/questions/generate *)

E1 == [question |-> "Q1", difficulty |-> "easy", wellFormed |-> TRUE]
E2 == [question |-> "Q2", difficulty |-> "hard", wellFormed |-> TRUE]
\* an entry whose question or difficulty is missing or not a string
EBad == [question |-> "", difficulty |-> "", wellFormed |-> FALSE]

\* What the model may reply: text holding a JSON array, text whose [...] does not
\* parse, or a rejected call.
GenOutcomes ==
    {[kind |-> "array", entries |-> s] : s \in {<<E1>>, <<E1, E2>>, <<E1, EBad, E2>>}}
    \cup {[kind |-> "badjson", entries |-> <<>>], [kind |-> "throw", entries |-> <<>>]}

\* The entries before the first one insertQuestionSchema.parse rejects.
RECURSIVE WellFormedPrefix(_)
WellFormedPrefix(entries) ==
    IF entries = <<>> \/ ~Head(entries).wellFormed THEN <<>>
    ELSE <<Head(entries)>> \o WellFormedPrefix(Tail(entries))

\* The save loop: createQuestion for each entry in turn.
RECURSIVE createQuestions(_, _, _)
createQuestions(sid, entries, nextId) ==
    IF entries = <<>> THEN <<>>
    ELSE <<[id |-> nextId, sessionId |-> sid, question |-> Head(entries).question,
            difficulty |-> Head(entries).difficulty]>>
         \o createQuestions(sid, Tail(entries), nextId + 1)

GenerateQuestions(r, topic, sid) ==
    /\ Free(r)
    /\ IF sid = 0
       THEN /\ response' = [kind |-> "generate", status |-> 400, questions |-> <<>>]
            /\ UNCHANGED <<aiCalls, reqs>>
       ELSE /\ aiCalls < MaxAiCalls
            /\ aiCalls' = aiCalls + 1
            /\ reqs' = [reqs EXCEPT ![r] = [kind |-> "generate", pc |-> "ai",
                                            sessionId |-> sid]]
            /\ UNCHANGED response
    /\ UNCHANGED <<store, aiResponseCache, now, areas, client>>

GenerateQuestionsAiDone(r, outcome) ==
    /\ reqs[r].kind = "generate" /\ reqs[r].pc = "ai"
    /\ LET saved == createQuestions(reqs[r].sessionId,
                                    WellFormedPrefix(outcome.entries), questionId)
           failed == \/ outcome.kind \in {"badjson", "throw"}
                     \/ Len(saved) < Len(outcome.entries)
       IN  /\ questionId + Len(saved) - 1 <= MaxQuestions
           /\ questions' = questions \o saved
           /\ questionId' = questionId + Len(saved)
           /\ response' = [kind |-> "generate",
                           status |-> IF failed THEN 500 ELSE 200,
                           questions |-> IF failed THEN <<>> ELSE saved]
    /\ reqs' = [reqs EXCEPT ![r] = Idle]
    /\ UNCHANGED <<sessions, answers, sessionId, answerId, aiCalls,
                   aiResponseCache, now, areas, client>>

-----------------------------------------------------------------------------
(* POST /api/answers *)

ModelEvaluation(c) ==
    [correctness |-> c, feedback |-> "model feedback",
     strengths |-> <<"s1">>, weaknesses |-> <<"w1">>]

\* Scores the model may put in a single-answer reply.
ModelScores == {80}

\* What the single-answer evaluation call may produce.
EvalOutcomes ==
    {[kind |-> "object", evaluation |-> ModelEvaluation(c)] : c \in ModelScores}
    \cup {[kind |-> "nojson", evaluation |-> FallbackEvaluation],
          [kind |-> "throw", evaluation |-> FallbackEvaluation]}

\* Mutant: a reply that does not parse puts the pending placeholder in place.
ParseEvaluation_Pending(outcome) ==
    IF outcome.kind = "object" THEN outcome.evaluation ELSE PendingEvaluation

\* Mutant: a reply that does not parse leaves the temporary evaluation in place.
ParseEvaluation_KeepsTemp(outcome) ==
    IF outcome.kind = "object" THEN outcome.evaluation ELSE TempEvaluation(FALSE)

\* text.match(/{[\s\S]*}/) and JSON.parse, with the catch's default evaluation.
ParseEvaluation(outcome) ==
    IF outcome.kind = "object" THEN outcome.evaluation ELSE FallbackEvaluation

\* The request bodies tried: a userAnswer that is not a string is the truthy "x".
AnswerBodies ==
    {b \in [questionId : QuestionIdInputs, userAnswer : UserAnswers,
            isString : BOOLEAN, deferEvaluation : BOOLEAN] :
        b.isString \/ b.userAnswer = "x"}

AnswerReq(b, pc) ==
    [kind |-> "answer", pc |-> pc, questionId |-> b.questionId,
     userAnswer |-> b.userAnswer, isString |-> b.isString,
     deferEvaluation |-> b.deferEvaluation,
     id |-> 0, existingAnswer |-> <<>>, answer |-> <<>>]

AnswerResponse(qid, deferEvaluation, status, body) ==
    [kind |-> "answer", status |-> status, questionId |-> qid,
     deferEvaluation |-> deferEvaluation, body |-> body]

\* The handler up to its first suspension.
PostAnswers(r, b) ==
    /\ Free(r)
    /\ IF b.questionId = 0 \/ b.userAnswer = ""
       THEN /\ response' = AnswerResponse(b.questionId, b.deferEvaluation, 400, <<>>)
            /\ UNCHANGED <<answerId, aiCalls, reqs>>
       ELSE IF b.deferEvaluation
       THEN LET answerData == insertAnswerSchema(b.questionId, b.userAnswer,
                                                 b.isString, PendingEvaluation, <<>>)
            IN  IF answerData = <<>>
                THEN /\ response' = AnswerResponse(b.questionId, TRUE, 500, <<>>)
                     /\ UNCHANGED <<answerId, aiCalls, reqs>>
                ELSE /\ answerId <= MaxAnswerId
                     /\ answerId' = answerId + 1
                     /\ reqs' = [reqs EXCEPT ![r] =
                            [AnswerReq(b, "write") EXCEPT
                                !.id = answerId,
                                !.existingAnswer = getQuestionAnswer(b.questionId),
                                !.answer = answerData]]
                     /\ UNCHANGED <<aiCalls, response>>
       ELSE /\ response' = AnswerResponse(b.questionId, FALSE, 202,
                              <<tempAnswer(b.questionId, b.userAnswer, FALSE)>>)
            /\ IF getQuestion(b.questionId) = <<>>
               THEN UNCHANGED <<answerId, aiCalls, reqs>>
               ELSE /\ aiCalls < MaxAiCalls
                    /\ aiCalls' = aiCalls + 1
                    /\ reqs' = [reqs EXCEPT ![r] = AnswerReq(b, "ai")]
                    /\ UNCHANGED answerId
    /\ UNCHANGED <<sessions, questions, answers, sessionId, questionId,
                   aiResponseCache, now, areas, client>>

\* Mutant: a rejected model call stores the default evaluation, as a reply
\* that does not parse does.
AnswerAiDone_ThrowStoresDefault(r, outcome) ==
    /\ reqs[r].kind = "answer" /\ reqs[r].pc = "ai"
    /\ LET answerData == insertAnswerSchema(reqs[r].questionId, reqs[r].userAnswer,
                                            reqs[r].isString,
                                            ParseEvaluation(outcome), <<>>)
       IN  IF answerData = <<>>
           THEN /\ reqs' = [reqs EXCEPT ![r] = Idle]
                /\ UNCHANGED answerId
           ELSE /\ answerId <= MaxAnswerId
                /\ answerId' = answerId + 1
                /\ reqs' = [reqs EXCEPT ![r].pc = "write",
                                        ![r].id = answerId,
                                        ![r].existingAnswer =
                                            getQuestionAnswer(reqs[r].questionId),
                                        ![r].answer = answerData]
    /\ UNCHANGED <<sessions, questions, answers, sessionId, questionId, aiCalls,
                   aiResponseCache, now, areas, client, response>>

\* The fast path once model.generateContent has settled.
AnswerAiDone(r, outcome) ==
    /\ reqs[r].kind = "answer" /\ reqs[r].pc = "ai"
    /\ LET answerData == insertAnswerSchema(reqs[r].questionId, reqs[r].userAnswer,
                                            reqs[r].isString,
                                            ParseEvaluation(outcome), <<>>)
       IN  IF outcome.kind = "throw" \/ answerData = <<>>
           THEN /\ reqs' = [reqs EXCEPT ![r] = Idle]
                /\ UNCHANGED answerId
           ELSE /\ answerId <= MaxAnswerId
                /\ answerId' = answerId + 1
                /\ reqs' = [reqs EXCEPT ![r].pc = "write",
                                        ![r].id = answerId,
                                        ![r].existingAnswer =
                                            getQuestionAnswer(reqs[r].questionId),
                                        ![r].answer = answerData]
    /\ UNCHANGED <<sessions, questions, answers, sessionId, questionId, aiCalls,
                   aiResponseCache, now, areas, client, response>>

\* createAnswer resumes after its await and writes; the deferred path responds.
AnswerWrite(r) ==
    /\ reqs[r].kind = "answer" /\ reqs[r].pc = "write"
    /\ LET saved == createAnswerRecord(reqs[r].answer[1], reqs[r].id,
                                       reqs[r].existingAnswer)
       IN  /\ answers' = MapSet(answers, saved)
           /\ response' = IF reqs[r].deferEvaluation
                          THEN AnswerResponse(reqs[r].questionId, TRUE, 200, <<saved>>)
                          ELSE response
    /\ reqs' = [reqs EXCEPT ![r] = Idle]
    /\ UNCHANGED <<sessions, questions, sessionId, questionId, answerId, aiCalls,
                   aiResponseCache, now, areas, client>>

-----------------------------------------------------------------------------
(* POST /api/sessions/:sessionId/evaluate-all-answers *)

\* Scores the model may return as totalScore.
BatchScores == {75, 150}

BatchReply(score, scoreIsNumber, strengthsIsArray, weaknessesIsArray) ==
    [kind |-> "object", totalScore |-> score, totalScoreIsNumber |-> scoreIsNumber,
     strengthsIsArray |-> strengthsIsArray, weaknessesIsArray |-> weaknessesIsArray]

\* What the batch call may produce: a JSON object (well-shaped or not), text
\* without an object, a rejected call, or the 15 s timer winning the race.
BatchOutcomes ==
    {BatchReply(c, TRUE, TRUE, TRUE) : c \in BatchScores}
    \cup {BatchReply(0, FALSE, TRUE, TRUE), BatchReply(75, TRUE, FALSE, TRUE),
          BatchReply(75, TRUE, TRUE, FALSE)}
    \cup {[kind |-> k, totalScore |-> 0, totalScoreIsNumber |-> FALSE,
           strengthsIsArray |-> FALSE, weaknessesIsArray |-> FALSE] :
            k \in {"nojson", "throw", "timeout"}}

RECURSIVE Sum(_)
Sum(seq) == IF seq = <<>> THEN 0 ELSE Head(seq) + Sum(Tail(seq))

\* Mutant: the mean is truncated.
Round_Truncates(total, n) == total \div n

\* Math.round(total / n) for n > 0: halves go towards plus infinity.
Round(total, n) == (2 * total + n) \div (2 * n)

\* The catch's averageScore over the snapshot's recorded correctness values.
AverageScore(answeredQuestions) ==
    LET withEval == SelectSeq(answeredQuestions, LAMBDA qa :
                          /\ qa.answer # <<>>
                          /\ "correctness" \in DOMAIN qa.answer[1].evaluation)
        scoresFromPreviousEvals ==
            [i \in 1..Len(withEval) |-> withEval[i].answer[1].evaluation.correctness]
    IN  IF Len(scoresFromPreviousEvals) > 0
        THEN Round(Sum(scoresFromPreviousEvals), Len(scoresFromPreviousEvals))
        ELSE 70

\* The evaluation the handler goes on with: the parsed and validated object, or
\* the catch's fallback.
BatchEvaluation(outcome, answeredQuestions, topic) ==
    IF /\ outcome.kind = "object" /\ outcome.totalScoreIsNumber
       /\ outcome.strengthsIsArray /\ outcome.weaknessesIsArray
    THEN [totalScore |-> outcome.totalScore, strengths |-> <<"s1">>,
          weaknesses |-> <<"w1">>, recommendedAreas |-> <<"a1">>]
    ELSE [totalScore |-> AverageScore(answeredQuestions),
          strengths |-> <<"You attempted to answer the questions",
                          "Your responses show engagement with the material">>,
          weaknesses |-> <<"Some concepts need deeper understanding",
                           "More detailed examples would improve your answers">>,
          recommendedAreas |-> <<"Review core concepts of " \o topic,
                                 "Practice applying concepts to specific scenarios">>]

batchEvaluationData(evaluation) ==
    [totalScore |-> evaluation.totalScore,
     feedback |-> "Your test has been evaluated based on your answers.",
     strengths |-> evaluation.strengths, weaknesses |-> evaluation.weaknesses,
     recommendedAreas |-> evaluation.recommendedAreas]

EvalAllResponse(sid, status, success, evaluation) ==
    [kind |-> "evalAll", status |-> status, sessionId |-> sid,
     success |-> success, evaluation |-> evaluation]

\* Mutant: only the empty list counts as "no answers".
NoAnsweredQuestions_LengthOnly(answeredQuestions) == Len(answeredQuestions) = 0

\* answeredQuestions.length === 0 || answeredQuestions.every(q => !q.answer)
NoAnsweredQuestions(answeredQuestions) ==
    \/ Len(answeredQuestions) = 0
    \/ \A i \in 1..Len(answeredQuestions) : answeredQuestions[i].answer = <<>>

\* The handler up to the model call.
PostEvaluateAll(r, sid) ==
    /\ Free(r)
    /\ LET session == getSession(sid)
           answeredQuestions == getSessionQuestionsWithAnswers(sid)
       IN  IF session = <<>>
           THEN /\ response' = [kind |-> "evalAll", status |-> 404, sessionId |-> sid]
                /\ UNCHANGED <<aiCalls, reqs>>
           ELSE IF NoAnsweredQuestions(answeredQuestions)
           THEN /\ response' = EvalAllResponse(sid, 400, FALSE, <<>>)
                /\ UNCHANGED <<aiCalls, reqs>>
           ELSE /\ aiCalls < MaxAiCalls
                /\ aiCalls' = aiCalls + 1
                /\ reqs' = [reqs EXCEPT ![r] =
                        [kind |-> "evalAll", pc |-> "ai", sessionId |-> sid,
                         topic |-> session[1].topic,
                         answeredQuestions |-> answeredQuestions,
                         evaluation |-> <<>>, id |-> 0,
                         existingAnswer |-> <<>>, answer |-> <<>>]]
                /\ UNCHANGED response
    /\ UNCHANGED <<store, aiResponseCache, now, areas, client>>

\* The race of the model call and the timer has settled.  Every request of
\* this route takes one of the MaxAiCalls model calls, which bounds its writes.
EvaluateAllAiDone(r, outcome) ==
    /\ reqs[r].kind = "evalAll" /\ reqs[r].pc = "ai"
    /\ LET aq == reqs[r].answeredQuestions
           evaluation == BatchEvaluation(outcome, aq, reqs[r].topic)
           answerData ==
               insertAnswerSchema(aq[1].id, aq[1].answer[1].userAnswer, TRUE,
                   [correctness |-> evaluation.totalScore,
                    feedback |-> "See overall evaluation for details",
                    strengths |-> evaluation.strengths,
                    weaknesses |-> evaluation.weaknesses],
                   <<batchEvaluationData(evaluation)>>)
       IN  IF outcome.kind \in {"throw", "timeout"}
           THEN /\ response' = EvalAllResponse(reqs[r].sessionId, 500, FALSE, <<>>)
                /\ reqs' = [reqs EXCEPT ![r] = Idle]
                /\ UNCHANGED answerId
           ELSE IF aq[1].answer = <<>>
           THEN /\ response' = EvalAllResponse(reqs[r].sessionId, 200, TRUE,
                                               <<batchEvaluationData(evaluation)>>)
                /\ reqs' = [reqs EXCEPT ![r] = Idle]
                /\ UNCHANGED answerId
           ELSE /\ answerId' = answerId + 1
                /\ reqs' = [reqs EXCEPT ![r].pc = "write",
                                        ![r].evaluation = <<evaluation>>,
                                        ![r].id = answerId,
                                        ![r].existingAnswer = getQuestionAnswer(aq[1].id),
                                        ![r].answer = answerData]
                /\ UNCHANGED response
    /\ UNCHANGED <<sessions, questions, answers, sessionId, questionId, aiCalls,
                   aiResponseCache, now, areas, client>>

\* Mutant: a finished batch evaluation moves the session on to "feedback".
EvaluateAllWrite_AdvancesStage(r) ==
    /\ reqs[r].kind = "evalAll" /\ reqs[r].pc = "write"
    /\ answers' = MapSet(answers, createAnswerRecord(reqs[r].answer[1], reqs[r].id,
                                                     reqs[r].existingAnswer))
    /\ sessions' = [i \in 1..Len(sessions) |->
                        IF sessions[i].id = reqs[r].sessionId
                        THEN [sessions[i] EXCEPT !.stage = "feedback"]
                        ELSE sessions[i]]
    /\ response' = EvalAllResponse(reqs[r].sessionId, 200, TRUE,
                                   <<batchEvaluationData(reqs[r].evaluation[1])>>)
    /\ reqs' = [reqs EXCEPT ![r] = Idle]
    /\ UNCHANGED <<questions, sessionId, questionId, answerId, aiCalls,
                   aiResponseCache, now, areas, client>>

\* createAnswer resumes after its await and writes; the handler responds.
EvaluateAllWrite(r) ==
    /\ reqs[r].kind = "evalAll" /\ reqs[r].pc = "write"
    /\ answers' = MapSet(answers, createAnswerRecord(reqs[r].answer[1], reqs[r].id,
                                                     reqs[r].existingAnswer))
    /\ response' = EvalAllResponse(reqs[r].sessionId, 200, TRUE,
                                   <<batchEvaluationData(reqs[r].evaluation[1])>>)
    /\ reqs' = [reqs EXCEPT ![r] = Idle]
    /\ UNCHANGED <<sessions, questions, sessionId, questionId, answerId, aiCalls,
                   aiResponseCache, now, areas, client>>

-----------------------------------------------------------------------------
\* The store flows need one answer text only.
StoreAnswerBodies == {b \in AnswerBodies : b.userAnswer # "y"}

NextStore ==
    \/ \E t \in SessionTopics : PostSession(1, t, "analysis")
    \/ \E r \in Slots, t \in SessionTopics, sid \in 0..MaxSessions :
          GenerateQuestions(r, t, sid)
    \/ \E r \in Slots, o \in GenOutcomes : GenerateQuestionsAiDone(r, o)
    \/ \E r \in Slots, b \in StoreAnswerBodies : PostAnswers(r, b)
    \/ \E r \in Slots, o \in EvalOutcomes : AnswerAiDone(r, o)
    \/ \E r \in Slots : AnswerWrite(r)
    \/ \E r \in Slots, sid \in 1..(MaxSessions + 1) : PostEvaluateAll(r, sid)
    \/ \E r \in Slots, o \in BatchOutcomes : EvaluateAllAiDone(r, o)
    \/ \E r \in Slots : EvaluateAllWrite(r)

Spec == Init /\ [][NextStore]_vars

-----------------------------------------------------------------------------
(* getCachedOrFetchFromAI *)

\* The routes that call the model through getCachedOrFetchFromAI.
GatewayKinds == {"teaching", "notes", "evaluate"}

CACHE_TTL == 3600000      \* 1000 * 60 * 60
AI_TIMEOUT == 15000       \* the timer raced against model.generateContent

\* Mutant: an entry is still used at age CACHE_TTL.
IsFresh_Inclusive(entry) == (now - entry.timestamp) <= CACHE_TTL

\* (Date.now() - cached.timestamp) < CACHE_TTL
IsFresh(entry) == (now - entry.timestamp) < CACHE_TTL

\* aiResponseCache.get(cacheKey), when it is present and still valid.
CacheHit(cacheKey) ==
    LET found == {e \in aiResponseCache : e.key = cacheKey /\ IsFresh(e)}
    IN  IF found = {} THEN <<>> ELSE <<CHOOSE e \in found : TRUE>>

\* Mutant: an entry already stored for the key is kept.
CacheSet_KeepsFirst(cacheKey, data, inputs) ==
    IF \E e \in aiResponseCache : e.key = cacheKey
    THEN aiResponseCache
    ELSE aiResponseCache \cup
            {[key |-> cacheKey, data |-> data, timestamp |-> now, inputs |-> inputs]}

\* aiResponseCache.set(cacheKey, {data, timestamp: Date.now()}).  inputs is not
\* in the source: it records the request inputs the entry was computed from.
CacheSet(cacheKey, data, inputs) ==
    {e \in aiResponseCache : e.key # cacheKey} \cup
        {[key |-> cacheKey, data |-> data, timestamp |-> now, inputs |-> inputs]}

\* The clock advances.  A call raced against the timer is settled by the time
\* the timer fires, so time does not pass the deadline of a pending one.
TimeSteps == {1, CACHE_TTL - 1}

Tick(d) ==
    /\ \E a, b \in 0..MaxTicks :
          a + b <= MaxTicks /\ now + d = a + b * (CACHE_TTL - 1)
    /\ \A r \in Slots :
          reqs[r].kind \in GatewayKinds =>
              now + d < reqs[r].dispatchedAt + AI_TIMEOUT
    /\ now' = now + d
    /\ UNCHANGED <<store, areas, client, aiCalls, aiResponseCache, reqs, response>>

-----------------------------------------------------------------------------
(* POST /api/teaching *)

\* (topic, question) pairs of the request bodies tried; "" is falsy.
TeachingInputs == {<<"a", "b:c">>, <<"a:b", "c">>, <<"a", "c">>, <<"a", "">>}

TeachingKey(topic, question) == "teaching:" \o topic \o ":" \o question

\* A line of the model's reply: its text, whether it holds a cue phrase
\* ("follow-up", "understanding", "check your") and whether it holds a "?".
Line(text, cue, mark) == [text |-> text, cue |-> cue, mark |-> mark]

TeachingTexts ==
    {<<Line("Explanation one.", FALSE, FALSE)>>,
     <<Line("Explanation two?", FALSE, TRUE),
       Line("Check your understanding:", TRUE, FALSE),
       Line("Why is that?", FALSE, TRUE)>>}

TeachingOutcomes ==
    {[kind |-> "text", text |-> t] : t \in TeachingTexts}
    \cup {[kind |-> k, text |-> <<>>] : k \in {"throw", "timeout"}}

\* The processFn of the teaching route: lines with a "?" after a cue line.
RECURSIVE followUpQuestions(_, _)
followUpQuestions(lines, collectingQuestions) ==
    IF lines = <<>> THEN <<>>
    ELSE IF Head(lines).cue THEN followUpQuestions(Tail(lines), TRUE)
    ELSE IF collectingQuestions /\ Head(lines).mark
         THEN <<Head(lines).text>> \o followUpQuestions(Tail(lines), TRUE)
         ELSE followUpQuestions(Tail(lines), collectingQuestions)

TeachingData(text) ==
    [text |-> text, followUpQuestions |-> followUpQuestions(text, FALSE)]

TeachingFallback ==
    [text |-> <<Line("I'm having trouble connecting to the teaching service right now. Please try again in a moment.", FALSE, FALSE)>>,
     followUpQuestions |-> <<"Would you like to try a different topic?">>]

\* A response of a route that goes through the gateway: hit says the data came
\* from the cache, fallback that it is the route's catch payload.
GatewayResponse(kind, status, hit, fallback, cacheKey, inputs, data) ==
    [kind |-> kind, status |-> status, hit |-> hit, fallback |-> fallback,
     key |-> cacheKey, inputs |-> inputs, data |-> data]

\* The handler up to the cache hit or the model call.
PostTeaching(r, topic, question) ==
    /\ Free(r)
    /\ LET cacheKey == TeachingKey(topic, question)
           cached == CacheHit(cacheKey)
       IN  IF topic = "" \/ question = ""
           THEN /\ response' = GatewayResponse("teaching", 400, FALSE, FALSE, "",
                                               <<topic, question>>, <<>>)
                /\ UNCHANGED <<aiCalls, reqs>>
           ELSE IF cached # <<>>
           THEN /\ response' = GatewayResponse("teaching", 200, TRUE, FALSE, cacheKey,
                                               <<topic, question>>, <<cached[1].data>>)
                /\ UNCHANGED <<aiCalls, reqs>>
           ELSE /\ aiCalls < MaxAiCalls
                /\ aiCalls' = aiCalls + 1
                /\ reqs' = [reqs EXCEPT ![r] =
                        [kind |-> "teaching", pc |-> "ai", key |-> cacheKey,
                         inputs |-> <<topic, question>>, dispatchedAt |-> now]]
                /\ UNCHANGED response
    /\ UNCHANGED <<store, aiResponseCache, now, areas, client>>

\* The race has settled: the reply is processed, cached and returned, or the
\* route's catch answers with its fallback.
TeachingAiDone(r, outcome) ==
    /\ reqs[r].kind = "teaching" /\ reqs[r].pc = "ai"
    /\ IF outcome.kind = "text"
       THEN /\ aiResponseCache' = CacheSet(reqs[r].key, TeachingData(outcome.text),
                                           reqs[r].inputs)
            /\ response' = GatewayResponse("teaching", 200, FALSE, FALSE, reqs[r].key,
                               reqs[r].inputs, <<TeachingData(outcome.text)>>)
       ELSE /\ response' = GatewayResponse("teaching", 200, FALSE, TRUE, reqs[r].key,
                               reqs[r].inputs, <<TeachingFallback>>)
            /\ UNCHANGED aiResponseCache
    /\ reqs' = [reqs EXCEPT ![r] = Idle]
    /\ UNCHANGED <<store, aiCalls, now, areas, client>>

NextTeaching ==
    \/ \E r \in Slots, i \in TeachingInputs : PostTeaching(r, i[1], i[2])
    \/ \E r \in Slots, o \in TeachingOutcomes : TeachingAiDone(r, o)
    \/ \E d \in TimeSteps : Tick(d)

SpecTeaching == Init /\ [][NextTeaching]_vars

-----------------------------------------------------------------------------
(* POST /api/notes/generate *)

\* The weak-area names tried, in the order Array.prototype.sort puts them.
WeakAreaOrder == <<"a", "b">>

\* req.body.weakAreas: absent (<<>>) or an array (<<array>>).
WeakAreasInputs == {<<>>, << <<>> >>, << <<"a", "b">> >>, << <<"b", "a">> >>}

\* weakAreas.sort() for arrays without repeated names.
sort(weakAreas) ==
    SelectSeq(WeakAreaOrder,
              LAMBDA n : \E i \in 1..Len(weakAreas) : weakAreas[i] = n)

\* Array.prototype.join
RECURSIVE join(_, _)
join(parts, sep) ==
    IF parts = <<>> THEN ""
    ELSE IF Len(parts) = 1 THEN parts[1]
    ELSE parts[1] \o sep \o join(Tail(parts), sep)

NotesKey(topic, weakAreas) ==
    "notes:" \o topic \o ":" \o
        (IF weakAreas = <<>> THEN "none" ELSE join(sort(weakAreas[1]), ","))

NotesTexts == {"# Notes"}

NotesOutcomes ==
    {[kind |-> "text", text |-> t] : t \in NotesTexts}
    \cup {[kind |-> k, text |-> ""] : k \in {"throw", "timeout"}}

NotesFallback(topic) ==
    [notes |-> "# " \o topic \o " - Study Notes: technical difficulties, basic points only"]

\* The handler up to the cache hit or the model call.
PostNotes(r, topic, weakAreas) ==
    /\ Free(r)
    /\ LET cacheKey == NotesKey(topic, weakAreas)
           cached == CacheHit(cacheKey)
       IN  IF topic = ""
           THEN /\ response' = GatewayResponse("notes", 400, FALSE, FALSE, "",
                                               <<topic, weakAreas>>, <<>>)
                /\ UNCHANGED <<aiCalls, reqs>>
           ELSE IF cached # <<>>
           THEN /\ response' = GatewayResponse("notes", 200, TRUE, FALSE, cacheKey,
                                               <<topic, weakAreas>>, <<cached[1].data>>)
                /\ UNCHANGED <<aiCalls, reqs>>
           ELSE /\ aiCalls < MaxAiCalls
                /\ aiCalls' = aiCalls + 1
                /\ reqs' = [reqs EXCEPT ![r] =
                        [kind |-> "notes", pc |-> "ai", key |-> cacheKey,
                         inputs |-> <<topic, weakAreas>>, dispatchedAt |-> now]]
                /\ UNCHANGED response
    /\ UNCHANGED <<store, aiResponseCache, now, areas, client>>

\* The race has settled: the notes are cached and returned, or the route's
\* catch answers with its fallback.
NotesAiDone(r, outcome) ==
    /\ reqs[r].kind = "notes" /\ reqs[r].pc = "ai"
    /\ IF outcome.kind = "text"
       THEN /\ aiResponseCache' = CacheSet(reqs[r].key, [notes |-> outcome.text],
                                           reqs[r].inputs)
            /\ response' = GatewayResponse("notes", 200, FALSE, FALSE, reqs[r].key,
                               reqs[r].inputs, <<[notes |-> outcome.text]>>)
       ELSE /\ response' = GatewayResponse("notes", 200, FALSE, TRUE, reqs[r].key,
                               reqs[r].inputs, <<NotesFallback(reqs[r].inputs[1])>>)
            /\ UNCHANGED aiResponseCache
    /\ reqs' = [reqs EXCEPT ![r] = Idle]
    /\ UNCHANGED <<store, aiCalls, now, areas, client>>

-----------------------------------------------------------------------------
(* POST /api/sessions/:sessionId/evaluate *)

\* String.prototype.substring(start, end) for 0 <= start <= end.
substring(str, start, end) ==
    SubSeq(str, start + 1, IF end < Len(str) THEN end ELSE Len(str))

\* questionsWithAnswers.filter(qa => qa.answer)
completedQuestionsWithAnswers(sid) ==
    SelectSeq(getSessionQuestionsWithAnswers(sid), LAMBDA qa : qa.answer # <<>>)

answersHash(completed) ==
    join([i \in 1..Len(completed) |->
            ToString(completed[i].id) \o "-"
                \o substring(completed[i].answer[1].userAnswer, 0, 10)], "|")

\* The key is built from the length of answersHash.
EvaluateKey(sid, completed) ==
    "evaluate:" \o ToString(sid) \o ":" \o ToString(Len(answersHash(completed)))

questionsAndAnswers(completed) ==
    [i \in 1..Len(completed) |->
        [question |-> [id |-> completed[i].id,
                       sessionId |-> completed[i].sessionId,
                       question |-> completed[i].question,
                       difficulty |-> completed[i].difficulty],
         answer |-> completed[i].answer[1]]]

\* What the model may reply: text holding a JSON object, with or without a
\* totalScore; text without one; a rejected call; nothing before the timer.
TestOutcomes ==
    {[kind |-> "json", totalScore |-> t] : t \in {<<>>, <<0>>, <<80>>}}
    \cup {[kind |-> k, totalScore |-> <<>>] : k \in {"nojson", "throw", "timeout"}}

\* The processFn of the route, for a reply that holds a JSON object.
TestResult(completed, outcome) ==
    [questionsAndAnswers |-> questionsAndAnswers(completed),
     totalScore |-> IF outcome.totalScore = <<>> THEN 0 ELSE outcome.totalScore[1],
     feedback |-> "Your performance was evaluated.",
     recommendedAreas |-> <<>>]

fallbackResult(completed, topic) ==
    [questionsAndAnswers |-> questionsAndAnswers(completed),
     totalScore |-> 50,
     feedback |-> "I'm having trouble generating a detailed evaluation right now. Here's a basic assessment of your answers.",
     recommendedAreas |-> <<"Review the core concepts of " \o topic>>]

\* The handler up to the cache hit or the model call; sessionId is a number.
PostEvaluate(r, sid) ==
    /\ Free(r)
    /\ LET session == getSession(sid)
           completed == completedQuestionsWithAnswers(sid)
           cacheKey == EvaluateKey(sid, completed)
           cached == CacheHit(cacheKey)
       IN  IF session = <<>>
           THEN /\ response' = GatewayResponse("evaluate", 404, FALSE, FALSE, "",
                                               <<>>, <<>>)
                /\ UNCHANGED <<aiCalls, reqs>>
           ELSE IF completed = <<>>
           THEN /\ response' = GatewayResponse("evaluate", 400, FALSE, FALSE, "",
                                               <<>>, <<>>)
                /\ UNCHANGED <<aiCalls, reqs>>
           ELSE IF cached # <<>>
           THEN /\ response' = GatewayResponse("evaluate", 200, TRUE, FALSE, cacheKey,
                                               completed, <<cached[1].data>>)
                /\ UNCHANGED <<aiCalls, reqs>>
           ELSE /\ aiCalls < MaxAiCalls
                /\ aiCalls' = aiCalls + 1
                /\ reqs' = [reqs EXCEPT ![r] =
                        [kind |-> "evaluate", pc |-> "ai", key |-> cacheKey,
                         inputs |-> completed, dispatchedAt |-> now,
                         topic |-> session[1].topic]]
                /\ UNCHANGED response
    /\ UNCHANGED <<store, aiResponseCache, now, areas, client>>

\* Mutant: the catch's fallbackResult is stored in the cache as well.
EvaluateAiDone_CachesFallback(r, outcome) ==
    /\ reqs[r].kind = "evaluate" /\ reqs[r].pc = "ai"
    /\ LET data == IF outcome.kind = "json"
                   THEN TestResult(reqs[r].inputs, outcome)
                   ELSE fallbackResult(reqs[r].inputs, reqs[r].topic)
       IN  /\ aiResponseCache' = CacheSet(reqs[r].key, data, reqs[r].inputs)
           /\ response' = GatewayResponse("evaluate", 200, FALSE,
                              outcome.kind # "json", reqs[r].key, reqs[r].inputs,
                              <<data>>)
    /\ reqs' = [reqs EXCEPT ![r] = Idle]
    /\ UNCHANGED <<store, aiCalls, now, areas, client>>

\* The race has settled: the reply is processed, cached and returned, or the
\* route's catch answers with fallbackResult.
EvaluateAiDone(r, outcome) ==
    /\ reqs[r].kind = "evaluate" /\ reqs[r].pc = "ai"
    /\ IF outcome.kind = "json"
       THEN LET data == TestResult(reqs[r].inputs, outcome)
            IN  /\ aiResponseCache' = CacheSet(reqs[r].key, data, reqs[r].inputs)
                /\ response' = GatewayResponse("evaluate", 200, FALSE, FALSE,
                                   reqs[r].key, reqs[r].inputs, <<data>>)
       ELSE /\ response' = GatewayResponse("evaluate", 200, FALSE, TRUE,
                               reqs[r].key, reqs[r].inputs,
                               <<fallbackResult(reqs[r].inputs, reqs[r].topic)>>)
            /\ UNCHANGED aiResponseCache
    /\ reqs' = [reqs EXCEPT ![r] = Idle]
    /\ UNCHANGED <<store, aiCalls, now, areas, client>>

\* Answers reach the whole-test evaluation through the deferred path.
EvaluateAnswerBodies ==
    {b \in AnswerBodies : b.deferEvaluation /\ b.isString /\ b.questionId # 0}

NextEvaluate ==
    \/ \E t \in SessionTopics : PostSession(1, t, "analysis")
    \/ \E r \in Slots, t \in SessionTopics : GenerateQuestions(r, t, 1)
    \/ \E r \in Slots, o \in GenOutcomes : GenerateQuestionsAiDone(r, o)
    \/ \E r \in Slots, b \in EvaluateAnswerBodies : PostAnswers(r, b)
    \/ \E r \in Slots : AnswerWrite(r)
    \/ \E r \in Slots, sid \in 1..(MaxSessions + 1) : PostEvaluate(r, sid)
    \/ \E r \in Slots, o \in TestOutcomes : EvaluateAiDone(r, o)

SpecEvaluate == Init /\ [][NextEvaluate]_vars

-----------------------------------------------------------------------------
(* The three routes behind the gateway *)

StageAnswerBodies ==
    {b \in StoreAnswerBodies : b.isString /\ b.userAnswer = "x" /\ b.questionId = 1}

GatewayAnswerBodies == {b \in StageAnswerBodies : b.deferEvaluation}

NextGateway ==
    \/ \E t \in SessionTopics : PostSession(1, t, "analysis")
    \/ \E r \in Slots, t \in SessionTopics : GenerateQuestions(r, t, 1)
    \/ \E r \in Slots : GenerateQuestionsAiDone(r, [kind |-> "array", entries |-> <<E1>>])
    \/ \E r \in Slots, b \in GatewayAnswerBodies : PostAnswers(r, b)
    \/ \E r \in Slots : AnswerWrite(r)
    \/ \E r \in Slots, sid \in 1..(MaxSessions + 1) : PostEvaluate(r, sid)
    \/ \E r \in Slots, o \in TestOutcomes : EvaluateAiDone(r, o)
    \/ \E r \in Slots, q \in {"c", ""} : PostTeaching(r, "a", q)
    \/ \E r \in Slots, o \in TeachingOutcomes : TeachingAiDone(r, o)
    \/ \E r \in Slots, t \in {"a", ""}, w \in {<<>>, << <<"b", "a">> >>} :
          PostNotes(r, t, w)
    \/ \E r \in Slots, o \in NotesOutcomes : NotesAiDone(r, o)

SpecGateway == Init /\ [][NextGateway]_vars

-----------------------------------------------------------------------------
(* Model calls with and without the timer *)

NextTimers ==
    \/ \E t \in SessionTopics : PostSession(1, t, "analysis")
    \/ \E r \in Slots, t \in SessionTopics : GenerateQuestions(r, t, 1)
    \/ \E r \in Slots : GenerateQuestionsAiDone(r, [kind |-> "array", entries |-> <<E1>>])
    \/ \E r \in Slots, b \in StageAnswerBodies : PostAnswers(r, b)
    \/ \E r \in Slots, o \in EvalOutcomes : AnswerAiDone(r, o)
    \/ \E r \in Slots : AnswerWrite(r)
    \/ \E r \in Slots : PostEvaluateAll(r, 1)
    \/ \E r \in Slots, o \in BatchOutcomes : EvaluateAllAiDone(r, o)
    \/ \E r \in Slots : EvaluateAllWrite(r)
    \/ \E r \in Slots : PostTeaching(r, "a", "c")
    \/ \E r \in Slots, o \in TeachingOutcomes : TeachingAiDone(r, o)

\* A call raced against the 15 s timer settles, by a reply or by the timer
\* (routes.ts:469-474, 656-662), and a suspended createAnswer resumes.  The
\* calls of routes.ts:147 and 360 are awaited alone: they settle only if the
\* model replies, which nothing guarantees.
TimersFairness ==
    \A r \in Slots :
        /\ WF_vars(\E o \in BatchOutcomes : EvaluateAllAiDone(r, o))
        /\ WF_vars(\E o \in TeachingOutcomes : TeachingAiDone(r, o))
        /\ WF_vars(EvaluateAllWrite(r))
        /\ WF_vars(AnswerWrite(r))

SpecTimers == Init /\ [][NextTimers]_vars /\ TimersFairness

-----------------------------------------------------------------------------
(* Sessions, stages and knowledge areas next to the other routes *)

NextStage ==
    \/ \E t \in SessionTopics, st \in {"analysis", "bogus"} : PostSession(1, t, st)
    \/ \E id \in 1..(MaxSessions + 1), st \in StageInputs, isString \in BOOLEAN :
          PatchStage(id, st, isString)
    \/ \E n \in AreaNames, p \in Proficiencies, valid \in BOOLEAN :
          PostKnowledgeArea(1, n, p, valid)
    \/ \E id \in 1..(MaxAreas + 1), p \in Proficiencies, isNumber \in BOOLEAN :
          PatchKnowledgeArea(id, p, isNumber)
    \/ \E r \in Slots, t \in SessionTopics : GenerateQuestions(r, t, 1)
    \/ \E r \in Slots : GenerateQuestionsAiDone(r, [kind |-> "array", entries |-> <<E1>>])
    \/ \E r \in Slots, b \in StageAnswerBodies : PostAnswers(r, b)
    \/ \E r \in Slots, o \in EvalOutcomes : AnswerAiDone(r, o)
    \/ \E r \in Slots : AnswerWrite(r)
    \/ \E r \in Slots : PostEvaluateAll(r, 1)
    \/ \E r \in Slots, o \in BatchOutcomes : EvaluateAllAiDone(r, o)
    \/ \E r \in Slots : EvaluateAllWrite(r)
    \/ \E r \in Slots : PostEvaluate(r, 1)
    \/ \E r \in Slots, o \in TestOutcomes : EvaluateAiDone(r, o)
    \/ \E r \in Slots : PostTeaching(r, "a", "c")
    \/ \E r \in Slots, o \in TeachingOutcomes : TeachingAiDone(r, o)
    \/ \E r \in Slots : PostNotes(r, "a", <<>>)
    \/ \E r \in Slots, o \in NotesOutcomes : NotesAiDone(r, o)

SpecStage == Init /\ [][NextStage]_vars

-----------------------------------------------------------------------------
(* Answers of differing texts and scores next to the batch evaluation *)

\* A reply to the single-answer call whose JSON object has no correctness.
NoScoreEvaluation == [feedback |-> "model feedback"]

BatchEvalOutcomes ==
    {[kind |-> "object", evaluation |-> e] :
        e \in {ModelEvaluation(75), NoScoreEvaluation}}
    \cup {[kind |-> "nojson", evaluation |-> FallbackEvaluation]}

BatchAnswerBodies ==
    {b \in AnswerBodies :
        b.isString /\ b.questionId # 0 /\ b.userAnswer # ""
        /\ (b.userAnswer = "y" => b.deferEvaluation)}

NextBatch ==
    \/ \E t \in SessionTopics : PostSession(1, t, "analysis")
    \/ \E r \in Slots, t \in SessionTopics : GenerateQuestions(r, t, 1)
    \/ \E r \in Slots :
          GenerateQuestionsAiDone(r, [kind |-> "array", entries |-> <<E1, E2>>])
    \/ \E r \in Slots, b \in BatchAnswerBodies : PostAnswers(r, b)
    \/ \E r \in Slots, o \in BatchEvalOutcomes : AnswerAiDone(r, o)
    \/ \E r \in Slots : AnswerWrite(r)
    \/ \E r \in Slots : PostEvaluateAll(r, 1)
    \/ \E r \in Slots, o \in BatchOutcomes : EvaluateAllAiDone(r, o)
    \/ \E r \in Slots : EvaluateAllWrite(r)

SpecBatch == Init /\ [][NextBatch]_vars

-----------------------------------------------------------------------------
(* GET /api/sessions/:sessionId/correct-answers *)

Apology == "Sorry, we couldn't generate the correct answer for this question."

\* String.prototype.trim for texts padded with blanks.
RECURSIVE trim(_)
trim(text) ==
    IF Len(text) > 0 /\ SubSeq(text, 1, 1) = " "
    THEN trim(SubSeq(text, 2, Len(text)))
    ELSE IF Len(text) > 0 /\ SubSeq(text, Len(text), Len(text)) = " "
    THEN trim(SubSeq(text, 1, Len(text) - 1))
    ELSE text

\* What a call for one correct answer may produce: a text, or a rejection
\* (of generateContent or of response.text()).
CorrectAnswerOutcomes ==
    {[kind |-> "text", text |-> t] : t \in {"A", " B "}}
    \cup {[kind |-> "throw", text |-> ""]}

CorrectAnswersResponse(sid, status, success, entries) ==
    [kind |-> "correct", status |-> status, sessionId |-> sid,
     success |-> success, answers |-> entries]

\* The handler up to the model call for the first question.
GetCorrectAnswers(r, sid, isNaN) ==
    /\ Free(r)
    /\ LET sessionQuestions == getSessionQuestions(sid)
       IN  IF isNaN
           THEN /\ response' = CorrectAnswersResponse(sid, 400, FALSE, <<>>)
                /\ UNCHANGED <<aiCalls, reqs>>
           ELSE IF Len(sessionQuestions) = 0 \/ getSession(sid) = <<>>
           THEN /\ response' = CorrectAnswersResponse(sid, 404, FALSE, <<>>)
                /\ UNCHANGED <<aiCalls, reqs>>
           ELSE /\ aiCalls < MaxAiCalls
                /\ aiCalls' = aiCalls + 1
                /\ reqs' = [reqs EXCEPT ![r] =
                        [kind |-> "correct", pc |-> "ai", sessionId |-> sid,
                         questions |-> sessionQuestions, answers |-> <<>>,
                         calls |-> 1]]
                /\ UNCHANGED response
    /\ UNCHANGED <<store, aiResponseCache, now, areas, client>>

CorrectAnswerEntry(question, outcome) ==
    [questionId |-> question.id,
     correctAnswer |-> IF outcome.kind = "throw" THEN Apology ELSE trim(outcome.text)]

\* Mutant: a rejected call ends the request with status 500.
CorrectAnswerAiDone_FailsWholesale(r, outcome) ==
    /\ reqs[r].kind = "correct" /\ reqs[r].pc = "ai"
    /\ LET question == reqs[r].questions[Len(reqs[r].answers) + 1]
           pushed == Append(reqs[r].answers, CorrectAnswerEntry(question, outcome))
       IN  IF outcome.kind = "throw"
           THEN /\ response' = CorrectAnswersResponse(reqs[r].sessionId, 500, FALSE, <<>>)
                /\ reqs' = [reqs EXCEPT ![r] = Idle]
                /\ UNCHANGED aiCalls
           ELSE IF Len(pushed) < Len(reqs[r].questions)
           THEN /\ aiCalls < MaxAiCalls
                /\ aiCalls' = aiCalls + 1
                /\ reqs' = [reqs EXCEPT ![r].answers = pushed,
                                        ![r].calls = reqs[r].calls + 1]
                /\ UNCHANGED response
           ELSE /\ response' = CorrectAnswersResponse(reqs[r].sessionId, 200, TRUE,
                                                      pushed)
                /\ reqs' = [reqs EXCEPT ![r] = Idle]
                /\ UNCHANGED aiCalls
    /\ UNCHANGED <<store, aiResponseCache, now, areas, client>>

\* The call for one question has settled: its entry is pushed, and the loop
\* goes on to the call for the next question or the handler responds.
CorrectAnswerAiDone(r, outcome) ==
    /\ reqs[r].kind = "correct" /\ reqs[r].pc = "ai"
    /\ LET question == reqs[r].questions[Len(reqs[r].answers) + 1]
           pushed == Append(reqs[r].answers, CorrectAnswerEntry(question, outcome))
       IN  IF Len(pushed) < Len(reqs[r].questions)
           THEN /\ aiCalls < MaxAiCalls
                /\ aiCalls' = aiCalls + 1
                /\ reqs' = [reqs EXCEPT ![r].answers = pushed,
                                        ![r].calls = reqs[r].calls + 1]
                /\ UNCHANGED response
           ELSE /\ response' = CorrectAnswersResponse(reqs[r].sessionId, 200, TRUE,
                                                      pushed)
                /\ reqs' = [reqs EXCEPT ![r] = Idle]
                /\ UNCHANGED aiCalls
    /\ UNCHANGED <<store, aiResponseCache, now, areas, client>>

NextCorrectAnswers ==
    \/ \E t \in SessionTopics : PostSession(1, t, "analysis")
    \/ \E r \in Slots, t \in SessionTopics : GenerateQuestions(r, t, 1)
    \/ \E r \in Slots, e \in {<<E1>>, <<E1, E2>>} :
          GenerateQuestionsAiDone(r, [kind |-> "array", entries |-> e])
    \/ \E r \in Slots, sid \in 1..(MaxSessions + 1), isNaN \in BOOLEAN :
          GetCorrectAnswers(r, sid, isNaN)
    \/ \E r \in Slots, o \in CorrectAnswerOutcomes : CorrectAnswerAiDone(r, o)

SpecCorrectAnswers == Init /\ [][NextCorrectAnswers]_vars

-----------------------------------------------------------------------------
(* The Analysis page: answering the questions and completing the test *)

\* The texts typed into the answer box.
TypedTexts == {"", "x"}

\* A request settles: apiRequest resolves, or rejects on a failed request.
ApiOutcomes == {"ok", "rejected"}

\* The effect that prepares nextQuestion, run after a render.
nextQuestionEffect(qs, current, answered) ==
    LET idx == CHOOSE i \in 1..Len(qs) : qs[i] = current
        unanswered == SelectSeq(qs, LAMBDA q : q \notin answered /\ q # current)
    IN  IF unanswered = <<>> THEN 0
        ELSE IF idx < Len(qs) /\ qs[idx + 1] \notin answered THEN qs[idx + 1]
        ELSE unanswered[1]

\* loadSession at mount, and the effect that picks the first unanswered
\* question as the current one.
loadSession ==
    /\ client.pc = "init"
    /\ getSession(1) # <<>>
    /\ LET loaded == getSessionQuestionsWithAnswers(1)
           qs == [i \in 1..Len(loaded) |-> loaded[i].id]
           answered == {loaded[i].id : i \in {j \in 1..Len(loaded) :
                                                loaded[j].answer # <<>>}}
           unanswered == SelectSeq(qs, LAMBDA q : q \notin answered)
           current == IF unanswered # <<>> THEN unanswered[1] ELSE qs[1]
       IN  /\ Len(qs) > 0
           /\ client' = [client EXCEPT
                  !.pc = "test", !.questions = qs, !.answered = answered,
                  !.hasKnowledgeAreas =
                      \E i \in 1..Len(knowledgeAreas) : knowledgeAreas[i].sessionId = 1,
                  !.currentQuestion = current,
                  !.nextQuestion = nextQuestionEffect(qs, current, answered)]
    /\ UNCHANGED <<store, areas, aiCalls, aiResponseCache, now, reqs, response>>

handleAnswerChange(text) ==
    /\ client.pc = "test"
    /\ client.userAnswers[client.currentQuestion] # <<text>>
    /\ client' = [client EXCEPT !.userAnswers[client.currentQuestion] = <<text>>]
    /\ UNCHANGED <<store, areas, aiCalls, aiResponseCache, now, reqs, response>>

\* submitAnswer(questionId, userAnswer, true)
DeferredSubmission(q, userAnswer) ==
    [questionId |-> q, userAnswer |-> userAnswer, deferEvaluation |-> TRUE]

\* The submissions of a completing click: one per entry of the pendingAnswers
\* this render was given.
CompletionSubmissions(pendingAnswers) ==
    {DeferredSubmission(q, pendingAnswers[q][1]) :
        q \in {p \in 1..MaxQuestions : pendingAnswers[p] # <<>>}}

\* handleSubmitAnswer up to its first await.  pendingAnswers is the Map of
\* the render the handler was created in: setPendingAnswers only queues the
\* update for the next render.
handleSubmitAnswer ==
    /\ client.pc = "test"
    /\ client.userAnswers[client.currentQuestion] \notin {<<>>, <<"">>}
    /\ LET qs == client.questions
           current == client.currentQuestion
           updated == [client.pendingAnswers EXCEPT
                          ![current] = client.userAnswers[current]]
           allQuestionsAnswered ==
               \A i \in 1..Len(qs) : client.userAnswers[qs[i]] # <<>>
           isLastQuestion == current = qs[Len(qs)]
           complete == allQuestionsAnswered
                       \/ (client.nextQuestion = 0 /\ isLastQuestion)
           untyped == SelectSeq(qs, LAMBDA q : client.userAnswers[q] = <<>>)
           shown == IF client.nextQuestion # 0 THEN client.nextQuestion
                    ELSE IF ~complete /\ untyped # <<>> THEN untyped[1]
                    ELSE current
       IN  client' = [client EXCEPT
               !.pendingAnswers = updated,
               !.currentQuestion = shown,
               !.nextQuestion = nextQuestionEffect(qs, shown, client.answered),
               !.pc = IF complete THEN "submitting" ELSE "test",
               !.outstanding = IF complete
                               THEN CompletionSubmissions(client.pendingAnswers)
                               ELSE {},
               !.evaluated = FALSE]
    /\ UNCHANGED <<store, areas, aiCalls, aiResponseCache, now, reqs, response>>

\* One of the submissions settles.  The first rejection rejects Promise.all:
\* the handler's catch ends the flow while the other requests stay in flight.
SubmitAnswerSettles(b, outcome) ==
    /\ client.pc = "submitting"
    /\ b \in client.outstanding
    /\ client' = IF outcome = "ok"
                 THEN [client EXCEPT !.outstanding = client.outstanding \ {b}]
                 ELSE [client EXCEPT !.pc = "test", !.outstanding = {},
                                     !.abandoned = client.abandoned
                                         \cup (client.outstanding \ {b})]
    /\ UNCHANGED <<store, areas, aiCalls, aiResponseCache, now, reqs, response>>

\* A submission of a flow that has already failed settles; nobody listens.
AbandonedSettles(b) ==
    /\ b \in client.abandoned
    /\ client' = [client EXCEPT !.abandoned = client.abandoned \ {b}]
    /\ UNCHANGED <<store, areas, aiCalls, aiResponseCache, now, reqs, response>>

\* Mutant: the batch evaluation is requested without waiting for the
\* submissions.
AllSubmitted_NoWait == client.pc = "submitting"

\* Promise.all(answerSubmissionPromises) has resolved.
AllSubmitted == client.pc = "submitting" /\ client.outstanding = {}

\* The handler resumes after Promise.all and calls submitAllAnswers.
SubmitAllAnswersDispatch ==
    /\ AllSubmitted
    /\ client' = [client EXCEPT !.pc = "evaluating"]
    /\ UNCHANGED <<store, areas, aiCalls, aiResponseCache, now, reqs, response>>

\* What evaluate-all-answers may send back, or the request fails.
EvalAllReplies ==
    {[outcome |-> "ok", success |-> s, hasEvaluation |-> e] :
        s \in BOOLEAN, e \in BOOLEAN}
    \cup {[outcome |-> "rejected", success |-> FALSE, hasEvaluation |-> FALSE]}

\* submitAllAnswers resolves with the data, and throws otherwise.
submitAllAnswers(reply) ==
    reply.outcome = "ok" /\ reply.success /\ reply.hasEvaluation

\* submitAllAnswers settles; on success the handler reloads the session.
SubmitAllAnswersSettles(reply) ==
    /\ client.pc = "evaluating"
    /\ client' = IF submitAllAnswers(reply)
                 THEN [client EXCEPT !.pc = "reloading", !.evaluated = TRUE]
                 ELSE [client EXCEPT !.pc = "test"]
    /\ UNCHANGED <<store, areas, aiCalls, aiResponseCache, now, reqs, response>>

\* loadSession after the evaluation settles; then the knowledge areas are
\* posted when the page had none, or the stage update is sent.
ReloadSettles(outcome) ==
    /\ client.pc = "reloading"
    /\ client' = IF outcome = "rejected" THEN [client EXCEPT !.pc = "test"]
                 ELSE IF client.hasKnowledgeAreas
                 THEN [client EXCEPT !.pc = "patching"]
                 ELSE [client EXCEPT !.pc = "areas"]
    /\ UNCHANGED <<store, areas, aiCalls, aiResponseCache, now, reqs, response>>

\* Promise.allSettled over the knowledge-area posts; updateSessionStage sends
\* the PATCH.
KnowledgeAreasSettle ==
    /\ client.pc = "areas"
    /\ client' = [client EXCEPT !.pc = "patching"]
    /\ UNCHANGED <<store, areas, aiCalls, aiResponseCache, now, reqs, response>>

\* The PATCH settles (updateSessionStage logs a failure); the page navigates.
UpdateSessionStageSettles(outcome) ==
    /\ client.pc = "patching"
    /\ client' = [client EXCEPT !.pc = "done"]
    /\ UNCHANGED <<store, areas, aiCalls, aiResponseCache, now, reqs, response>>

NextClient ==
    \/ \E t \in SessionTopics : PostSession(1, t, "analysis")
    \/ \E r \in Slots, t \in SessionTopics : GenerateQuestions(r, t, 1)
    \/ \E r \in Slots, e \in {<<E1>>, <<E1, E2>>} :
          GenerateQuestionsAiDone(r, [kind |-> "array", entries |-> e])
    \/ loadSession
    \/ \E text \in TypedTexts : handleAnswerChange(text)
    \/ handleSubmitAnswer
    \/ \E q \in 1..MaxQuestions, u \in TypedTexts, o \in ApiOutcomes :
          SubmitAnswerSettles(DeferredSubmission(q, u), o)
    \/ \E q \in 1..MaxQuestions, u \in TypedTexts :
          AbandonedSettles(DeferredSubmission(q, u))
    \/ SubmitAllAnswersDispatch
    \/ \E reply \in EvalAllReplies : SubmitAllAnswersSettles(reply)
    \/ \E o \in ApiOutcomes : ReloadSettles(o)
    \/ KnowledgeAreasSettle
    \/ \E o \in ApiOutcomes : UpdateSessionStageSettles(o)

SpecClient == Init /\ [][NextClient]_vars

-----------------------------------------------------------------------------
(* MemStorage.createAnswer called with records that may carry a batchEvaluation *)

\* The record evaluate-all-answers builds for a reply with totalScore 75.
BatchInput(qid, userAnswer) ==
    LET evaluation == BatchEvaluation(BatchReply(75, TRUE, TRUE, TRUE), <<>>, "Algebra")
    IN  [questionId |-> qid, userAnswer |-> userAnswer,
         evaluation |-> [correctness |-> evaluation.totalScore,
                         feedback |-> "See overall evaluation for details",
                         strengths |-> evaluation.strengths,
                         weaknesses |-> evaluation.weaknesses],
         batchEvaluation |-> <<batchEvaluationData(evaluation)>>]

CreateAnswerInputs ==
    {[questionId |-> q, userAnswer |-> u, evaluation |-> e, batchEvaluation |-> <<>>] :
        q \in 1..MaxQuestions, u \in {"x", "y"},
        e \in {PendingEvaluation, ModelEvaluation(80)}}
    \cup {BatchInput(q, u) : q \in 1..MaxQuestions, u \in {"x", "y"}}

\* createAnswer up to its await: the id is taken and the lookup made.
createAnswer(r, answer) ==
    /\ Free(r)
    /\ answerId <= MaxAnswerId
    /\ answerId' = answerId + 1
    /\ reqs' = [reqs EXCEPT ![r] =
            [kind |-> "createAnswer", pc |-> "write", id |-> answerId,
             existingAnswer |-> getQuestionAnswer(answer.questionId),
             answer |-> answer]]
    /\ UNCHANGED <<sessions, questions, answers, sessionId, questionId, aiCalls,
                   aiResponseCache, now, areas, client, response>>

\* createAnswer resumes after its await and writes.
createAnswerWrite(r) ==
    /\ reqs[r].kind = "createAnswer" /\ reqs[r].pc = "write"
    /\ answers' = MapSet(answers, createAnswerRecord(reqs[r].answer, reqs[r].id,
                                                     reqs[r].existingAnswer))
    /\ reqs' = [reqs EXCEPT ![r] = Idle]
    /\ UNCHANGED <<sessions, questions, sessionId, questionId, answerId, aiCalls,
                   aiResponseCache, now, areas, client, response>>

NextStorage ==
    \/ \E r \in Slots, answer \in CreateAnswerInputs : createAnswer(r, answer)
    \/ \E r \in Slots : createAnswerWrite(r)
    \/ \E d \in TimeSteps : Tick(d)

SpecStorage == Init /\ [][NextStorage]_vars

-----------------------------------------------------------------------------
(* Claims on the store flows (Spec) *)

\* C1: in every reachable state there is at most one persisted Answer per
\* questionId.
C1_AtMostOneAnswerPerQuestion ==
    \A i, j \in 1..Len(answers) :
        answers[i].questionId = answers[j].questionId => i = j

\* A deferred request starts in slot r / writes from slot r.
DeferredStarts(r) ==
    /\ reqs[r].kind = "idle" /\ reqs'[r].kind = "answer"
    /\ reqs'[r].deferEvaluation
DeferredWrites(r) ==
    /\ reqs[r].kind = "answer" /\ reqs[r].deferEvaluation
    /\ reqs'[r].kind = "idle"

\* C2: a deferred submission never calls the model: it is never waiting for a
\* model call, none of its steps changes the number of generateContent
\* invocations, and at its 200 response the Answer it persisted carries the
\* placeholder evaluation (correctness 0, "Pending evaluation at test
\* completion").
C2_DeferredNeverCallsAI ==
    /\ [](\A r \in Slots :
            reqs[r].kind = "answer" /\ reqs[r].deferEvaluation => reqs[r].pc = "write")
    /\ [][\A r \in Slots :
            /\ DeferredStarts(r) => aiCalls' = aiCalls /\ answers' = answers
            /\ DeferredWrites(r) =>
                /\ aiCalls' = aiCalls
                /\ response'.kind = "answer" /\ response'.status = 200
                /\ response'.deferEvaluation
                /\ response'.body[1].questionId = reqs[r].questionId
                /\ response'.body[1].evaluation.correctness = 0
                /\ response'.body[1].evaluation.feedback =
                       "Pending evaluation at test completion"
                /\ \E i \in 1..Len(answers') : answers'[i] = response'.body[1]]_vars

C2_Witness ==
    /\ response.kind = "answer" /\ response.status = 200
    /\ response.deferEvaluation
    /\ \E i \in 1..Len(answers) : answers[i] = response.body[1]

\* A fast-path request starts in slot r / leaves slot r.
FastStarts(r) ==
    /\ reqs[r].kind = "idle" /\ reqs'[r].kind = "answer"
    /\ ~reqs'[r].deferEvaluation
FastSettles(r) ==
    /\ reqs[r].kind = "answer" /\ ~reqs[r].deferEvaluation
    /\ reqs'[r].kind = "idle"

IsPlaceholder(evaluation) ==
    evaluation.feedback \in {"Evaluating your answer...",
                             "Pending evaluation at test completion"}

\* C3 as stated: whenever the asynchronous evaluation of a fast-path submission
\* has settled, the store holds for its question an Answer whose evaluation is
\* not the placeholder.
C3_SettledMeansEvaluated ==
    [][\A r \in Slots :
        FastSettles(r) =>
            /\ getQuestionAnswer(reqs[r].questionId)' # <<>>
            /\ ~IsPlaceholder(getQuestionAnswer(reqs[r].questionId)'[1].evaluation)]_vars

\* C3 amended: the 202 response (id -1, "Evaluating your answer...") is sent
\* before the model call completes and before anything is persisted; when the
\* evaluation settles with a model reply for a string userAnswer, the Answer
\* written carries the submitted userAnswer and the model's evaluation or the
\* fixed fallback (correctness 50), never a placeholder; when the model call
\* throws or the answer fails validation, nothing is persisted.
C3_FastPathAckThenEvaluation ==
    /\ [](response.kind = "answer" /\ response.status = 202 =>
            /\ ~response.deferEvaluation
            /\ response.body[1].id = -1
            /\ response.body[1].evaluation.feedback = "Evaluating your answer...")
    /\ [][\A r \in Slots :
        /\ FastStarts(r) =>
            /\ response'.kind = "answer" /\ response'.status = 202
            /\ response'.questionId = reqs'[r].questionId
            /\ reqs'[r].pc = "ai"
            /\ answers' = answers
        /\ FastSettles(r) /\ reqs[r].pc = "write" =>
            \E i \in 1..Len(answers') :
                /\ answers'[i].questionId = reqs[r].questionId
                /\ answers'[i].userAnswer = reqs[r].userAnswer
                /\ ~IsPlaceholder(answers'[i].evaluation)
                /\ \/ answers'[i].evaluation.correctness \in ModelScores
                   \/ /\ answers'[i].evaluation.correctness = 50
                      /\ answers'[i].evaluation.strengths = <<"Submission received">>
                /\ \A j \in 1..Len(answers) : j # i => answers'[j] = answers[j]
        /\ FastSettles(r) /\ reqs[r].pc = "ai" => answers' = answers]_vars

C3_Witness ==
    /\ response.kind = "answer" /\ response.status = 202
    /\ \E i \in 1..Len(answers) :
        /\ answers[i].questionId = response.questionId
        /\ answers[i].evaluation.feedback = "model feedback"

\* C4: evaluate-all-answers on an existing session with at least one answered
\* question always responds success: true (the only failures are 404 for an
\* unknown session and 400 for no answers).
C4_BatchAlwaysSucceeds ==
    response.kind = "evalAll" /\ response.status \notin {400, 404}
        => response.success

\* An evaluate-all-answers request answered at once, without taking a slot.
EvalAllAnsweredAtOnce(sid) ==
    /\ response' # response
    /\ response'.kind = "evalAll" /\ response'.sessionId = sid
    /\ \A r \in Slots : reqs[r].kind = "evalAll" => reqs'[r] = reqs[r]

\* C5: evaluate-all-answers on an existing session none of whose questions has
\* a persisted Answer responds 400 with success: false, calls no model and
\* leaves the store and the cache unchanged; the model is called only for a
\* session with an answered question.
C5_NoAnswersFails ==
    [][/\ \A sid \in 1..MaxSessions :
            /\ EvalAllAnsweredAtOnce(sid)
            /\ getSession(sid) # <<>>
            /\ \A i \in 1..Len(questions) :
                  questions[i].sessionId = sid => getQuestionAnswer(questions[i].id) = <<>>
            => /\ response'.status = 400 /\ ~response'.success
               /\ UNCHANGED <<store, aiResponseCache, aiCalls, reqs>>
       /\ \A r \in Slots :
            reqs[r].kind = "idle" /\ reqs'[r].kind = "evalAll"
            => \E i \in 1..Len(questions) :
                  /\ questions[i].sessionId = reqs'[r].sessionId
                  /\ getQuestionAnswer(questions[i].id) # <<>>]_vars

C5_Witness ==
    /\ response.kind = "evalAll" /\ response.status = 400
    /\ getSession(response.sessionId) # <<>>
    /\ getSessionQuestions(response.sessionId) # <<>>
    /\ answers = <<>>

\* C6: every evaluate-all-answers response that carries an evaluation has
\* evaluation.totalScore within [0,100].
C6_TotalScoreInRange ==
    response.kind = "evalAll" /\ response.status = 200
        => response.evaluation[1].totalScore \in 0..100

-----------------------------------------------------------------------------
(* Claims on the cached gateway (SpecTeaching, SpecEvaluate) *)

\* A gateway route answers from the cache / starts a model call from slot r /
\* settles in slot r.
GatewayHitStep ==
    /\ response' # response
    /\ response'.kind \in GatewayKinds /\ response'.status = 200 /\ response'.hit
GatewayMissStep(r) ==
    reqs[r].kind = "idle" /\ reqs'[r].kind \in GatewayKinds
GatewaySettles(r) ==
    reqs[r].kind \in GatewayKinds /\ reqs'[r].kind = "idle"

\* C7: a teaching request is answered from the cache only when its (topic,
\* question) pair is one an entry was computed from, and a request whose pair
\* has an entry younger than the TTL is answered from the cache without a
\* further AI call.
C7_TeachingCacheKeyedByPair ==
    [][/\ GatewayHitStep /\ response'.kind = "teaching" =>
            /\ \E e \in aiResponseCache : e.inputs = response'.inputs
            /\ aiCalls' = aiCalls
       /\ \A r \in Slots :
            GatewayMissStep(r) /\ reqs'[r].kind = "teaching" =>
                /\ aiCalls' = aiCalls + 1
                /\ ~\E e \in aiResponseCache :
                      /\ e.inputs = reqs'[r].inputs
                      /\ now - e.timestamp < 3600000]_vars

\* C9: a read is a hit iff an entry exists for the key and now - storedAt is
\* below 60 minutes; at age 60 minutes or more the model is called again and
\* its result replaces the entry with the current time as timestamp.
C9_HitIffYoungerThanTTL ==
    [][/\ GatewayHitStep =>
            /\ \E e \in aiResponseCache :
                  /\ e.key = response'.key
                  /\ now - e.timestamp < 3600000
                  /\ response'.data = <<e.data>>
            /\ aiCalls' = aiCalls /\ aiResponseCache' = aiResponseCache
       /\ \A r \in Slots :
            /\ GatewayMissStep(r) =>
                /\ ~\E e \in aiResponseCache :
                      e.key = reqs'[r].key /\ now - e.timestamp < 3600000
                /\ aiCalls' = aiCalls + 1
            /\ GatewaySettles(r) /\ ~response'.fallback =>
                /\ \E e \in aiResponseCache' : e.key = reqs[r].key
                /\ \A e \in aiResponseCache' :
                      e.key = reqs[r].key => e.timestamp = now]_vars

\* An entry exactly 60 minutes old was treated as a miss.
C9_Witness ==
    \E r \in Slots, e \in aiResponseCache :
        /\ reqs[r].kind \in GatewayKinds
        /\ e.key = reqs[r].key
        /\ reqs[r].dispatchedAt - e.timestamp = 3600000

\* C10: every miss makes one AI call, also while another invocation with the
\* same key is pending; settling makes none; a settled call's processed result
\* is returned and becomes the only entry of its key, whatever was stored for
\* the key in the meantime.
C10_MissCallsOnceLastStoreWins ==
    [][\A r \in Slots :
        /\ GatewayMissStep(r) =>
            /\ aiCalls' = aiCalls + 1
            /\ aiResponseCache' = aiResponseCache
        /\ GatewaySettles(r) =>
            /\ aiCalls' = aiCalls
            /\ response'.kind = reqs[r].kind /\ response'.key = reqs[r].key
            /\ ~response'.hit
            /\ IF response'.fallback
               THEN aiResponseCache' = aiResponseCache
               ELSE /\ \A e \in aiResponseCache' :
                          e.key = reqs[r].key =>
                              e.data = response'.data[1] /\ e.timestamp = now
                    /\ \E e \in aiResponseCache' : e.key = reqs[r].key
                    /\ \A e \in aiResponseCache :
                          e.key # reqs[r].key => e \in aiResponseCache']_vars

\* An invocation is pending while an entry for its key, stored by a concurrent
\* invocation after this one read the cache, is already in place.
C10_Witness ==
    \E r \in Slots, e \in aiResponseCache :
        /\ reqs[r].kind \in GatewayKinds /\ reqs[r].pc = "ai"
        /\ e.key = reqs[r].key
        /\ e.timestamp >= reqs[r].dispatchedAt
        /\ aiCalls >= 2

\* The (question id, userAnswer) pairs of a list of answered questions / of a
\* TestResult.
AnsweredTexts(completed) ==
    [i \in 1..Len(completed) |->
        <<completed[i].id, completed[i].answer[1].userAnswer>>]
ResultTexts(result) ==
    [i \in 1..Len(result.questionsAndAnswers) |->
        <<result.questionsAndAnswers[i].question.id,
          result.questionsAndAnswers[i].answer.userAnswer>>]

\* C8: a TestResult returned from the cache by /evaluate was computed from the
\* answers the session has at that request: same answered questions, same
\* userAnswer texts.
C8_CachedResultIsForTheseAnswers ==
    [][GatewayHitStep /\ response'.kind = "evaluate" =>
          ResultTexts(response'.data[1]) = AnsweredTexts(response'.inputs)]_vars

-----------------------------------------------------------------------------
(* Claims on sessions and stages (SpecStage) *)

\* C11: a session's stage changes only in a step of PATCH
\* /api/sessions/:id/stage that answers 200 with the updated session; every
\* other route leaves the sessions and their stages as they are.
C11_StageChangesOnlyByPatch ==
    [][/\ Len(sessions') >= Len(sessions)
       /\ \A i \in 1..Len(sessions) :
            /\ sessions'[i].id = sessions[i].id
            /\ sessions'[i].stage # sessions[i].stage =>
                /\ response'.kind = "stage" /\ response'.status = 200
                /\ response'.session = <<sessions'[i]>>]_vars

\* A patched session next to a stored answer and a cached AI response.
C11_Witness ==
    /\ \E i \in 1..Len(sessions) : sessions[i].stage = "feedback"
    /\ answers # <<>>
    /\ aiResponseCache # {}
    /\ knowledgeAreas # <<>>

\* C20: every stored session's stage is one of analysis, feedback, teaching,
\* retest.
C20_StageIsOneOfFour ==
    \A i \in 1..Len(sessions) :
        sessions[i].stage \in {"analysis", "feedback", "teaching", "retest"}

-----------------------------------------------------------------------------
(* Claims on batch evaluation and the fast path (Spec) *)

\* evaluate-all-answers answers 200 with success true.
BatchSucceeds ==
    /\ response' # response
    /\ response'.kind = "evalAll" /\ response'.status = 200 /\ response'.success

\* The positions in answers' of the answers to questions of session sid.
SessionAnswersAfter(sid) ==
    {i \in 1..Len(answers') :
        \E q \in 1..Len(questions) :
            /\ questions[q].sessionId = sid
            /\ questions[q].id = answers'[i].questionId}

\* C12: when a batch evaluation succeeds, exactly one stored answer of the
\* session carries a batchEvaluation, and it answers the session's first
\* question.
C12_OneAnswerCarriesBatchEvaluation ==
    [][BatchSucceeds =>
          LET sid == response'.sessionId
              carrying == {i \in SessionAnswersAfter(sid) :
                              answers'[i].batchEvaluation # <<>>}
          IN  /\ Cardinality(carrying) = 1
              /\ \A i \in carrying :
                    answers'[i].questionId = getSessionQuestions(sid)[1].id]_vars

\* C13: when a batch evaluation succeeds, no stored answer of the session is
\* left with the "Pending evaluation at test completion" placeholder.
C13_NoAnswerLeftPending ==
    [][BatchSucceeds =>
          \A i \in SessionAnswersAfter(response'.sessionId) :
              answers'[i].evaluation # PendingEvaluation]_vars

\* C14: a fast-path evaluation whose reply holds no JSON object goes on to
\* createAnswer with the fallback evaluation, and createAnswer's write stores
\* the evaluation it was given.
C14_UnparsableReplyPersistsFallback ==
    [][\A r \in Slots :
        /\ \A o \in EvalOutcomes :
              o.kind = "nojson" /\ AnswerAiDone(r, o) =>
                  /\ reqs'[r].pc = "write"
                  /\ reqs'[r].answer[1].evaluation = FallbackEvaluation
        /\ AnswerWrite(r) =>
              \E i \in 1..Len(answers') :
                  /\ answers'[i].questionId = reqs[r].questionId
                  /\ answers'[i].evaluation = reqs[r].answer[1].evaluation]_vars

-----------------------------------------------------------------------------
(* Claims on failures behind the gateway (SpecGateway) *)

\* The fallback payload of the route a pending gateway call belongs to.
FallbackOf(req) ==
    CASE req.kind = "teaching" -> TeachingFallback
      [] req.kind = "notes" -> NotesFallback(req.inputs[1])
      [] req.kind = "evaluate" -> fallbackResult(req.inputs, req.topic)

\* A pending gateway call of slot r settles on a timeout, a rejected call or
\* a reply its processFn throws on.
GatewayFails(r) ==
    \/ \E o \in TeachingOutcomes :
          o.kind \in {"throw", "timeout"} /\ TeachingAiDone(r, o)
    \/ \E o \in NotesOutcomes :
          o.kind \in {"throw", "timeout"} /\ NotesAiDone(r, o)
    \/ \E o \in TestOutcomes :
          o.kind \in {"nojson", "throw", "timeout"} /\ EvaluateAiDone(r, o)

\* C15: a failed call behind the gateway answers 200 with the route's fallback
\* payload and leaves the cache as it was; every settled call answers 200; and
\* a valid request whose key has no fresh entry calls the AI.
C15_FailureGivesUncachedFallback ==
    [][\A r \in Slots :
        /\ GatewayFails(r) =>
              /\ response'.status = 200 /\ response'.kind = reqs[r].kind
              /\ response'.fallback
              /\ response'.data = <<FallbackOf(reqs[r])>>
              /\ aiResponseCache' = aiResponseCache
        /\ GatewaySettles(r) =>
              /\ response'.status = 200
              /\ response'.fallback => aiResponseCache' = aiResponseCache
        /\ \/ PostTeaching(r, "a", "c")
           \/ \E w \in WeakAreasInputs : PostNotes(r, "a", w)
           \/ \E sid \in 1..MaxSessions :
                 /\ PostEvaluate(r, sid)
                 /\ getSession(sid) # <<>>
                 /\ completedQuestionsWithAnswers(sid) # <<>>
           => \/ aiCalls' = aiCalls + 1
              \/ \E e \in aiResponseCache :
                    /\ e.key = response'.key /\ now - e.timestamp < 3600000
                    /\ response'.hit /\ response'.data = <<e.data>>]_vars

\* After a failed call answered with the fallback, the cache holds nothing for
\* its key and a further call for the same key is under way.
C15_Witness ==
    /\ response.kind \in GatewayKinds /\ response.status = 200 /\ response.fallback
    /\ ~\E e \in aiResponseCache : e.key = response.key
    /\ \E r \in Slots :
          /\ reqs[r].kind = response.kind /\ reqs[r].pc = "ai"
          /\ reqs[r].key = response.key
    /\ aiCalls >= 2

-----------------------------------------------------------------------------
(* Claims on the timer (SpecTimers) *)

\* C16: the work waiting on a dispatched AI call always proceeds: a handler
\* that is waiting for the model does not wait forever.
C16_EveryAiCallSettles ==
    \A r \in Slots : (reqs[r].pc = "ai") ~> (reqs[r].pc # "ai")

-----------------------------------------------------------------------------
(* Claims on answers and their questions (Spec) *)

\* C17: POST /api/answers with a questionId that is not in the store answers
\* 404 and starts nothing, and every stored answer refers to a stored question.
C17_UnknownQuestionIs404 ==
    /\ [](\A i \in 1..Len(answers) : getQuestion(answers[i].questionId) # <<>>)
    /\ [][\A r \in Slots, b \in StoreAnswerBodies :
            /\ PostAnswers(r, b)
            /\ b.questionId # 0 /\ b.userAnswer # ""
            /\ getQuestion(b.questionId) = <<>>
            => response'.status = 404 /\ reqs' = reqs]_vars

\* The answer a read of question qid finds after the step.
QuestionAnswerAfter(qid) ==
    LET idx == {i \in 1..Len(answers') : answers'[i].questionId = qid}
    IN  IF idx = {} THEN <<>> ELSE <<answers'[Min(idx)]>>

\* C18: a question whose stored answer has an evaluation other than the
\* pending placeholder keeps an answer, and never gets the placeholder back.
C18_EvaluatedNeverBackToPending ==
    [][\A i \in 1..Len(answers) :
          answers[i].evaluation # PendingEvaluation =>
              /\ QuestionAnswerAfter(answers[i].questionId) # <<>>
              /\ QuestionAnswerAfter(answers[i].questionId)[1].evaluation
                    # PendingEvaluation]_vars

\* C18 as the code has it: the answer read for an evaluated question is never
\* removed, and it gets the pending placeholder back only by the createAnswer
\* write of a later deferred submission for that question, never by a
\* fast-path write or a batch evaluation.
C18_BackToPendingOnlyByDeferredSubmit ==
    [][\A i \in 1..Len(answers) :
          LET qid == answers[i].questionId
              read == getQuestionAnswer(qid)
          IN  read[1].evaluation # PendingEvaluation =>
                  /\ QuestionAnswerAfter(qid) # <<>>
                  /\ QuestionAnswerAfter(qid)[1].evaluation = PendingEvaluation =>
                        \E r \in Slots :
                            /\ AnswerWrite(r)
                            /\ reqs[r].deferEvaluation
                            /\ reqs[r].questionId = qid]_vars

\* A deferred submission is about to overwrite an evaluated answer.
C18_Witness ==
    \E r \in Slots :
        /\ reqs[r].kind = "answer" /\ reqs[r].pc = "write"
        /\ reqs[r].deferEvaluation
        /\ reqs[r].existingAnswer # <<>>
        /\ getQuestionAnswer(reqs[r].questionId) # <<>>
        /\ getQuestionAnswer(reqs[r].questionId)[1].evaluation # PendingEvaluation

\* C19: after a createAnswer write of a submission, the answer read for the
\* question has the userAnswer and the evaluation of that write.
C19_LastWriterWins ==
    [][\A r \in Slots :
          AnswerWrite(r) =>
              LET read == QuestionAnswerAfter(reqs[r].questionId)
              IN  /\ read # <<>>
                  /\ read[1].userAnswer = reqs[r].answer[1].userAnswer
                  /\ read[1].evaluation = reqs[r].answer[1].evaluation]_vars

-----------------------------------------------------------------------------
(* Claims on question generation (Spec) *)

\* The entries of a reply that pass insertQuestionSchema.
WellFormedEntries(entries) == SelectSeq(entries, LAMBDA e : e.wellFormed)

\* C21: a reply holding a JSON array is answered 200, and all its well-formed
\* entries, those after a malformed one included, are stored and returned.
C21_MalformedEntryOnlyDropped ==
    [][\A r \in Slots, o \in GenOutcomes :
          o.kind = "array" /\ GenerateQuestionsAiDone(r, o) =>
              /\ response'.status = 200
              /\ questions' = questions \o response'.questions
              /\ [i \in 1..Len(response'.questions) |->
                     response'.questions[i].question]
                 = [i \in 1..Len(WellFormedEntries(o.entries)) |->
                     WellFormedEntries(o.entries)[i].question]]_vars

\* C22: no two stored questions of a session have the same text.
C22_NoDuplicateQuestionText ==
    \A i, j \in 1..Len(questions) :
        /\ i # j
        /\ questions[i].sessionId = questions[j].sessionId
        => questions[i].question # questions[j].question

\* C30: the questions a generation request stores are the ones its response
\* returns; a request answered with an error status stores none.
C30_PersistedEqualsReturned ==
    [][\A r \in Slots, o \in GenOutcomes :
          GenerateQuestionsAiDone(r, o) =>
              /\ questions' = questions \o response'.questions
              /\ response'.status # 200 => questions' = questions]_vars

-----------------------------------------------------------------------------
(* Claims on the batch evaluation's fallback and its write (SpecBatch) *)

\* The reply does not settle with an evaluation the validation accepts.
BatchReplyRejected(o) ==
    \/ o.kind = "nojson"
    \/ /\ o.kind = "object"
       /\ ~(o.totalScoreIsNumber /\ o.strengthsIsArray /\ o.weaknessesIsArray)

\* The correctness values recorded on the answered questions of a snapshot.
RecordedScores(answeredQuestions) ==
    LET idx == {i \in 1..Len(answeredQuestions) :
                   /\ answeredQuestions[i].answer # <<>>
                   /\ "correctness" \in
                          DOMAIN answeredQuestions[i].answer[1].evaluation}
        pick == SelectSeq([i \in 1..Len(answeredQuestions) |-> i],
                          LAMBDA i : i \in idx)
    IN  [k \in 1..Len(pick) |->
            answeredQuestions[pick[k]].answer[1].evaluation.correctness]

\* v is the mean of the scores rounded to the nearest integer, halves upwards.
IsRoundedMean(v, scores) ==
    LET n == Len(scores)
    IN  /\ 2 * v * n - n <= 2 * Sum(scores)
        /\ 2 * Sum(scores) < 2 * v * n + n

\* The totalScore a settling batch request goes on with, <<>> when it has none.
TotalScoreAfter(r) ==
    IF reqs'[r].kind = "evalAll" /\ reqs'[r].pc = "write"
    THEN <<reqs'[r].evaluation[1].totalScore>>
    ELSE IF response'.kind = "evalAll" /\ response'.status = 200
    THEN <<response'.evaluation[1].totalScore>>
    ELSE <<>>

\* C24: when the batch reply has no JSON object or fails validation, the
\* totalScore is the rounded mean of the correctness values recorded on the
\* answered questions of the session, and 70 when no value is recorded.
C24_FallbackTotalScore ==
    [][\A r \in Slots, o \in BatchOutcomes :
          BatchReplyRejected(o) /\ EvaluateAllAiDone(r, o) =>
              LET scores == RecordedScores(reqs[r].answeredQuestions)
              IN  /\ TotalScoreAfter(r) # <<>>
                  /\ IF Len(scores) > 0
                     THEN IsRoundedMean(TotalScoreAfter(r)[1], scores)
                     ELSE TotalScoreAfter(r)[1] = 70]_vars

\* A fallback over the scores 75 and 0: the mean 37.5 is rounded to 38.
C24_Witness ==
    \E r \in Slots :
        /\ reqs[r].kind = "evalAll" /\ reqs[r].pc = "write"
        /\ RecordedScores(reqs[r].answeredQuestions) \in {<<75, 0>>, <<0, 75>>}
        /\ reqs[r].evaluation[1].totalScore = 38
        /\ reqs[r].evaluation[1].strengths[1] = "You attempted to answer the questions"

\* A fallback over a snapshot without a recorded score: the default.
C24_WitnessDefault ==
    \E r \in Slots :
        /\ reqs[r].kind = "evalAll" /\ reqs[r].pc = "write"
        /\ RecordedScores(reqs[r].answeredQuestions) = <<>>
        /\ reqs[r].evaluation[1].totalScore = 70

\* C28: the write of evaluate-all-answers leaves the userAnswer of every stored
\* Answer as it is, also when the first question was answered again between
\* the route's read of the session's answers and its write.
C28_BatchKeepsUserAnswer ==
    [][\A r \in Slots :
          EvaluateAllWrite(r) =>
              \A i \in 1..Len(answers) :
                  \E j \in 1..Len(answers') :
                      /\ answers'[j].id = answers[i].id
                      /\ answers'[j].userAnswer = answers[i].userAnswer]_vars

-----------------------------------------------------------------------------
(* Claims on failures of the fast path (Spec) *)

\* C27: when the model call of a fast-path submission is rejected, or its
\* question does not exist, after the 202 response, the request ends there:
\* no step of it changes the store, no further response is sent and the
\* submitted userAnswer is not persisted by it.
C27_FastPathFailureOnlyLogged ==
    [][/\ \A r \in Slots : FastStarts(r) => UNCHANGED store
       /\ \A r \in Slots, o \in EvalOutcomes :
              o.kind = "throw" /\ AnswerAiDone(r, o) =>
                  /\ UNCHANGED store
                  /\ response' = response
                  /\ reqs'[r] = Idle
       /\ \A r \in Slots, b \in AnswerBodies :
              /\ ~b.deferEvaluation /\ b.questionId # 0 /\ b.userAnswer # ""
              /\ getQuestion(b.questionId) = <<>>
              /\ PostAnswers(r, b)
              => /\ response'.status = 202
                 /\ UNCHANGED store
                 /\ reqs' = reqs]_vars

\* The model was called for a fast-path submission of an existing question, the
\* request is over and no Answer was written for the question.
C27_Witness ==
    /\ response.kind = "answer" /\ response.status = 202
    /\ getQuestion(response.questionId) # <<>>
    /\ getQuestionAnswer(response.questionId) = <<>>
    /\ aiCalls = 2 /\ answerId = 1
    /\ \A r \in Slots : reqs[r] = Idle

-----------------------------------------------------------------------------
(* Claims on MemStorage.createAnswer (SpecStorage) *)

\* C29: createAnswer for a questionId that has an Answer keeps the id, the
\* questionId and the createdAt of that record, replaces its userAnswer and
\* evaluation, keeps the batchEvaluation it found when the input carries none,
\* and leaves every other Answer and the number of Answers unchanged.
C29_CreateAnswerOverwrites ==
    [][\A r \in Slots :
          createAnswerWrite(r) /\ reqs[r].existingAnswer # <<>> =>
              LET existing == reqs[r].existingAnswer[1]
                  answer == reqs[r].answer
              IN  /\ Len(answers') = Len(answers)
                  /\ \E i \in 1..Len(answers) :
                        /\ answers[i].id = existing.id
                        /\ answers'[i].id = answers[i].id
                        /\ answers'[i].questionId = answers[i].questionId
                        /\ answers'[i].createdAt = answers[i].createdAt
                        /\ answers'[i].userAnswer = answer.userAnswer
                        /\ answers'[i].evaluation = answer.evaluation
                        /\ answer.batchEvaluation = <<>> =>
                               answers'[i].batchEvaluation = existing.batchEvaluation
                        /\ answer.batchEvaluation # <<>> =>
                               answers'[i].batchEvaluation = answer.batchEvaluation
                        /\ \A j \in 1..Len(answers) :
                               j # i => answers'[j] = answers[j]]_vars

\* An Answer created with a batchEvaluation at time 0 was overwritten later by
\* an input without one: one record, its batchEvaluation and createdAt kept.
C29_Witness ==
    /\ Len(answers) = 1 /\ answerId = 3
    /\ \A r \in Slots : reqs[r] = Idle
    /\ now > 0 /\ answers[1].createdAt = 0
    /\ answers[1].id = 1
    /\ answers[1].batchEvaluation # <<>>
    /\ answers[1].evaluation = ModelEvaluation(80)
    /\ answers[1].userAnswer = "y"

-----------------------------------------------------------------------------
(* Claims on the correct-answers route (SpecCorrectAnswers) *)

\* C23: a correct-answers request for an existing session with n >= 1
\* questions calls the model once per question; the call for a question
\* contributes the apology string when it fails and the model's trimmed text
\* otherwise; and the response is success: true with n entries, one per
\* question in store order.
C23_CorrectAnswersNeverFailWholesale ==
    [][\A r \in Slots :
          /\ \A sid \in 1..(MaxSessions + 1) :
                /\ GetCorrectAnswers(r, sid, FALSE)
                /\ getSession(sid) # <<>> /\ Len(getSessionQuestions(sid)) >= 1
                => /\ reqs'[r].kind = "correct"
                   /\ reqs'[r].questions = getSessionQuestions(sid)
                   /\ aiCalls' = aiCalls + 1
                   /\ response' = response
          /\ \A o \in CorrectAnswerOutcomes :
                CorrectAnswerAiDone(r, o) =>
                    LET n == Len(reqs[r].questions)
                        k == Len(reqs[r].answers) + 1
                        answersAfter == IF reqs'[r].kind = "correct"
                                        THEN reqs'[r].answers
                                        ELSE response'.answers
                    IN  /\ reqs[r].calls = k
                        /\ Len(answersAfter) = k
                        /\ SubSeq(answersAfter, 1, k - 1) = reqs[r].answers
                        /\ answersAfter[k].questionId = reqs[r].questions[k].id
                        /\ o.kind = "throw" => answersAfter[k].correctAnswer = Apology
                        /\ o.kind = "text" =>
                               answersAfter[k].correctAnswer = trim(o.text)
                        /\ IF k < n
                           THEN /\ reqs'[r].kind = "correct"
                                /\ aiCalls' = aiCalls + 1
                                /\ response' = response
                           ELSE /\ reqs'[r] = Idle
                                /\ aiCalls' = aiCalls
                                /\ response'.kind = "correct"
                                /\ response'.status = 200 /\ response'.success
                                /\ Len(response'.answers) = n
                                /\ \A i \in 1..n :
                                      response'.answers[i].questionId =
                                          reqs[r].questions[i].id]_vars

\* Two questions, the first call failed and the second one replied.
C23_Witness ==
    /\ response.kind = "correct" /\ response.status = 200 /\ response.success
    /\ Len(response.answers) = 2
    /\ response.answers[1] = [questionId |-> 1, correctAnswer |-> Apology]
    /\ response.answers[2] = [questionId |-> 2, correctAnswer |-> "B"]

-----------------------------------------------------------------------------
(* Claims on the client's test completion (SpecClient) *)

\* C25: the click that completes the test submits a deferred answer for every
\* question answered in the test, the one answered by this click included;
\* a test with one question sends one submission.
C25_CompletionSubmitsEveryAnswer ==
    [][handleSubmitAnswer /\ client'.pc = "submitting" =>
          client'.outstanding = CompletionSubmissions(client'.pendingAnswers)]_vars

====
